---- MODULE Spec2Model ----
(***************************************************************************)
(* Inventory accounting engine of the fish ERP: batch ledger, on-hand      *)
(* calculator, FIFO allocator, sale recorder and closure engine, over the  *)
(* SQLite tables of core/schema.py.                                        *)
(*                                                                         *)
(* Tables are sequences of rows; a row's AUTOINCREMENT id is its index.    *)
(* Python floats (kg, prices) are modelled as exact rationals [n, d] in    *)
(* lowest terms with d > 0, so float rounding noise is outside the model.  *)
(* Every x() call of core/db.py commits on its own: a handler that raises  *)
(* after some x() calls leaves the rows of those calls in the store.       *)
(* The variable last records the most recent call that changed the store:  *)
(* its operation, the class of the exception it raised ("ok" if none) and  *)
(* the number of sale rows it left.  A call that changes no row is a       *)
(* stuttering step.                                                        *)
(***************************************************************************)
EXTENDS Integers, Sequences, FiniteSets, TLC

VARIABLES batches, batch_lines, sales, inventory_adjustments, batch_closures, last

vars == <<batches, batch_lines, sales, inventory_adjustments, batch_closures, last>>

store == <<batches, batch_lines, sales, inventory_adjustments, batch_closures>>

-----------------------------------------------------------------------------
(* Bounds of the model.                                                    *)

MaxBatches == 2

MaxSales == 3

MaxAdj == 1

MaxPcs == 2

-----------------------------------------------------------------------------
(* Exact arithmetic standing for Python float arithmetic.                  *)

NULL == "NULL"

\* Python None for an optional value, and a present value
None == <<>>

Some(v) == <<v>>

RECURSIVE GCD(_, _)
GCD(a, b) ==
    IF b = 0 THEN a ELSE GCD(b, a % b)

IAbs(i) ==
    IF i < 0 THEN -i ELSE i

Rat(n, d) ==
    LET s == IF d < 0 THEN -1 ELSE 1
        g == GCD(IAbs(n), IAbs(d))
    IN  [n |-> (s * n) \div g, d |-> (s * d) \div g]

RInt(i) ==
    [n |-> i, d |-> 1]

RZero ==
    RInt(0)

RAdd(a, b) ==
    Rat(a.n * b.d + b.n * a.d, a.d * b.d)

RNeg(a) ==
    [n |-> -a.n, d |-> a.d]

RSub(a, b) ==
    RAdd(a, RNeg(b))

RMul(a, b) ==
    Rat(a.n * b.n, a.d * b.d)

RDiv(a, b) ==
    Rat(a.n * b.d, a.d * b.n)

RLt(a, b) ==
    a.n * b.d < b.n * a.d

RLeq(a, b) ==
    a.n * b.d <= b.n * a.d

RAbs(a) ==
    [n |-> IAbs(a.n), d |-> a.d]

RMin(a, b) ==
    IF RLeq(a, b) THEN a ELSE b

\* a <= 1/k for a positive integer k, without forming a.n * k
RLeqInv(a, k) ==
    a.n <= 0 \/ (a.d \div a.n) >= k

\* Python 3 round(x): nearest integer, ties to the even one
PyRound(a) ==
    LET q == a.n \div a.d
        r == a.n - q * a.d
    IN  IF 2 * r < a.d THEN q
        ELSE IF 2 * r > a.d THEN q + 1
        ELSE IF q % 2 = 0 THEN q ELSE q + 1

safe_div(n, d) ==
    IF d.n # 0 THEN RDiv(n, d) ELSE RZero

IMin(a, b) ==
    IF a <= b THEN a ELSE b

IMax(a, b) ==
    IF a >= b THEN a ELSE b

RECURSIVE SumPcs(_, _)
SumPcs(rows, f) ==
    IF rows = <<>> THEN 0 ELSE rows[1][f] + SumPcs(Tail(rows), f)

RECURSIVE SumKg(_, _)
SumKg(rows, f) ==
    IF rows = <<>> THEN RZero ELSE RAdd(rows[1][f], SumKg(Tail(rows), f))

-----------------------------------------------------------------------------
(* Thresholds of the code, as 1/k.                                         *)

\* 1e-9 of the kg allocation loop
EpsAlloc == 1000000000

\* 1e-6 of the "not enough kg" check
EpsShort == 1000000

\* 1e-6 of the depletion check of close_batch
EpsClosed == 1000000

-----------------------------------------------------------------------------
(* Reference data: the rows of branches and sizes (static lookups).        *)

Branches == {1, 2}

Sizes == {1, 2}

Now == "ts"

OK == [cls |-> "ok", msg |-> ""]

ValueError(m) ==
    [cls |-> "ValueError", msg |-> m]

IntegrityError(m) ==
    [cls |-> "IntegrityError", msg |-> m]

-----------------------------------------------------------------------------
(* Batch ledger (core/services/batches.py).                                *)

BatchLineInput(size_id, pieces, kg, price) ==
    [size_id |-> size_id, pieces |-> pieces, kg |-> kg, buy_price_per_kg |-> price]

\* float(v) succeeds
IsNumber(v) ==
    v # None

\* UNIQUE(batch_code) and the branch foreign key of the batches table
InsertBatchError(bs, code, branch_id) ==
    IF \E i \in 1..Len(bs) : bs[i].batch_code = code
        THEN IntegrityError("UNIQUE constraint failed: batches.batch_code")
    ELSE IF branch_id \notin Branches
        THEN IntegrityError("FOREIGN KEY constraint failed")
    ELSE OK

\* the foreign keys of the batch_lines table
InsertLineError(bs, batch_id, size_id) ==
    IF batch_id \notin 1..Len(bs) \/ size_id \notin Sizes
        THEN IntegrityError("FOREIGN KEY constraint failed")
    ELSE OK

BatchRow(code, date, branch_id, price, total_pcs, total_kg, batch_avg) ==
    [batch_code |-> code, receipt_date |-> date, branch_id |-> branch_id,
     buy_price_per_kg |-> price, initial_pieces |-> total_pcs,
     initial_kg |-> total_kg, batch_avg_kg_per_piece |-> batch_avg,
     status |-> "OPEN", closed_at |-> NULL]

LineRow(batch_id, l) ==
    [batch_id |-> batch_id, size_id |-> l.size_id, pieces |-> l.pieces,
     kg |-> l.kg, avg_kg_per_piece |-> safe_div(l.kg, RInt(l.pieces))]

\* the line loop of create_batch: one committed insert per line, stopping at
\* the first insert the store rejects
RECURSIVE InsertLines(_, _, _, _)
InsertLines(bs, ls, batch_id, lns) ==
    IF lns = <<>> THEN [batch_lines |-> ls, err |-> OK]
    ELSE LET e == InsertLineError(bs, batch_id, lns[1].size_id)
         IN  IF e # OK THEN [batch_lines |-> ls, err |-> e]
             ELSE InsertLines(bs, Append(ls, LineRow(batch_id, lns[1])), batch_id, Tail(lns))

\* batch_avg = safe_div(total_kg, total_pcs)
batch_avg_swapped(total_kg, total_pcs) ==
    safe_div(RInt(total_pcs), total_kg)

batch_avg_of(total_kg, total_pcs) ==
    safe_div(total_kg, RInt(total_pcs))

create_batch_totals_unchecked(bs, ls, code, date, branch_id, price, lns) ==
    LET fail(e) == [batches |-> bs, batch_lines |-> ls, err |-> e, id |-> 0]
        total_pcs == SumPcs(lns, "pieces")
        total_kg == SumKg(lns, "kg")
    IN  IF code = <<>> THEN fail(ValueError("Batch code is required."))
        ELSE IF lns = <<>> THEN fail(ValueError("At least one size line is required."))
        ELSE IF ~IsNumber(price) THEN fail(ValueError("Buy price per kg must be a number."))
        ELSE IF RLeq(price[1], RZero) THEN fail(ValueError("Buy price per kg must be > 0."))
        ELSE IF InsertBatchError(bs, code, branch_id) # OK
            THEN fail(InsertBatchError(bs, code, branch_id))
        ELSE LET batch_avg == batch_avg_of(total_kg, total_pcs)
                 bs2 == Append(bs, BatchRow(code, date, branch_id, price[1],
                                            total_pcs, total_kg, batch_avg))
                 batch_id == Len(bs2)
                 r == InsertLines(bs2, ls, batch_id, lns)
             IN  [batches |-> bs2, batch_lines |-> r.batch_lines, err |-> r.err,
                  id |-> IF r.err = OK THEN batch_id ELSE 0]

\* create_batch on the tables (bs, ls): the tables after the call, the error
\* raised (OK if none) and the id returned
create_batch(bs, ls, code, date, branch_id, price, lns) ==
    LET fail(e) == [batches |-> bs, batch_lines |-> ls, err |-> e, id |-> 0]
        total_pcs == SumPcs(lns, "pieces")
        total_kg == SumKg(lns, "kg")
    IN  IF code = <<>> THEN fail(ValueError("Batch code is required."))
        ELSE IF lns = <<>> THEN fail(ValueError("At least one size line is required."))
        ELSE IF ~IsNumber(price) THEN fail(ValueError("Buy price per kg must be a number."))
        ELSE IF RLeq(price[1], RZero) THEN fail(ValueError("Buy price per kg must be > 0."))
        ELSE IF total_pcs <= 0 THEN fail(ValueError("Total pieces must be > 0."))
        ELSE IF RLeq(total_kg, RZero) THEN fail(ValueError("Total kg must be > 0."))
        ELSE IF InsertBatchError(bs, code, branch_id) # OK
            THEN fail(InsertBatchError(bs, code, branch_id))
        ELSE LET batch_avg == batch_avg_of(total_kg, total_pcs)
                 bs2 == Append(bs, BatchRow(code, date, branch_id, price[1],
                                            total_pcs, total_kg, batch_avg))
                 batch_id == Len(bs2)
                 r == InsertLines(bs2, ls, batch_id, lns)
             IN  [batches |-> bs2, batch_lines |-> r.batch_lines, err |-> r.err,
                  id |-> IF r.err = OK THEN batch_id ELSE 0]

\* _normalize_branch_code of the branch's name, per branch id
BranchCode(branch_id) ==
    <<"MAIBRA", "BRAB">>[branch_id]

\* _get_size_code: the size's code, trimmed and upper-cased
SizeCode(size_id) ==
    <<"SIZE_2", "SIZE_3">>[size_id]

\* str(receipt_date).replace("-", "")
Ymd(date) ==
    <<"20260218", "20260219", "20260220", "20260221">>[date]

\* f"{seq:03d}"
Seq03(seq) ==
    <<"001", "002", "003", "004", "005", "006", "007", "008", "009">>[seq]

\* batch_code LIKE prefix || '%', on codes held as their dash-separated parts
HasPrefix(code, prefix) ==
    Len(code) >= Len(prefix) /\ SubSeq(code, 1, Len(prefix)) = prefix

_generate_batch_code(bs, branch_id, size_id, date) ==
    LET prefix == <<BranchCode(branch_id), SizeCode(size_id), Ymd(date)>>
        n == Cardinality({i \in 1..Len(bs) : HasPrefix(bs[i].batch_code, prefix)})
    IN  prefix \o <<Seq03(n + 1)>>

\* the loop of create_batches_from_purchase over the remaining lines lns, with
\* the ids created so far
RECURSIVE purchase_loop(_, _, _, _, _, _)
purchase_loop(bs, ls, ids, date, branch_id, lns) ==
    LET stop(e) == [batches |-> bs, batch_lines |-> ls, err |-> e, ids |-> ids]
        l == lns[1]
    IN  IF lns = <<>> THEN stop(OK)
        ELSE IF l.pieces <= 0 \/ RLeq(l.kg, RZero)
            THEN purchase_loop(bs, ls, ids, date, branch_id, Tail(lns))
        ELSE IF l.buy_price_per_kg = None
            THEN stop(ValueError("Buy price per kg is required for each size line."))
        ELSE IF RLeq(l.buy_price_per_kg[1], RZero)
            THEN stop(ValueError("Buy price per kg must be > 0 for each size line."))
        ELSE IF branch_id \notin Branches THEN stop(ValueError("Branch not found."))
        ELSE IF l.size_id \notin Sizes THEN stop(ValueError("Size not found."))
        ELSE LET code == _generate_batch_code(bs, branch_id, l.size_id, date)
                 r == create_batch(bs, ls, code, date, branch_id, l.buy_price_per_kg,
                                   <<BatchLineInput(l.size_id, l.pieces, l.kg, None)>>)
             IN  IF r.err # OK
                     THEN [batches |-> r.batches, batch_lines |-> r.batch_lines,
                           err |-> r.err, ids |-> ids]
                 ELSE purchase_loop(r.batches, r.batch_lines, Append(ids, r.id),
                                    date, branch_id, Tail(lns))

create_batches_from_purchase_empty_ok(bs, ls, date, branch_id, lns) ==
    IF lns = <<>>
        THEN [batches |-> bs, batch_lines |-> ls, ids |-> <<>>,
              err |-> ValueError("At least one size line is required.")]
    ELSE purchase_loop(bs, ls, <<>>, date, branch_id, lns)

create_batches_from_purchase(bs, ls, date, branch_id, lns) ==
    IF lns = <<>>
        THEN [batches |-> bs, batch_lines |-> ls, ids |-> <<>>,
              err |-> ValueError("At least one size line is required.")]
    ELSE LET r == purchase_loop(bs, ls, <<>>, date, branch_id, lns)
         IN  IF r.err = OK /\ r.ids = <<>>
                 THEN [r EXCEPT !.err = ValueError("No valid lines found.")]
             ELSE r

-----------------------------------------------------------------------------
(* On-hand calculator (core/services/inventory.py and its copy in          *)
(* core/services/sales.py).                                                *)

OnHand(pcs, kg) ==
    [pcs |-> pcs, kg |-> kg]

batch_on_hand_sales_only(bs, sl, adj, batch_id) ==
    IF batch_id \notin 1..Len(bs) THEN OnHand(0, RZero)
    ELSE LET b == bs[batch_id]
             sold == SelectSeq(sl, LAMBDA r : r.batch_id = batch_id)
         IN  OnHand(b.initial_pieces - SumPcs(sold, "pcs_sold"),
                    RSub(b.initial_kg, SumKg(sold, "kg_sold")))

batch_on_hand(bs, sl, adj, batch_id) ==
    IF batch_id \notin 1..Len(bs) THEN OnHand(0, RZero)
    ELSE LET b == bs[batch_id]
             sold == SelectSeq(sl, LAMBDA r : r.batch_id = batch_id)
             adjs == SelectSeq(adj, LAMBDA r : r.batch_id = batch_id)
         IN  OnHand(b.initial_pieces - SumPcs(sold, "pcs_sold") + SumPcs(adjs, "pcs_delta"),
                    RAdd(RSub(b.initial_kg, SumKg(sold, "kg_sold")), SumKg(adjs, "kg_delta")))

_batch_line_on_hand_adjusted(ls, sl, batch_id, size_id) ==
    LET bl == SelectSeq(ls, LAMBDA r : r.batch_id = batch_id /\ r.size_id = size_id)
        sold == SelectSeq(sl, LAMBDA r : r.batch_id = batch_id /\ r.size_id = Some(size_id))
        adjs == SelectSeq(inventory_adjustments, LAMBDA r : r.batch_id = batch_id)
    IN  IF bl = <<>> THEN OnHand(0, RZero)
        ELSE OnHand(bl[1].pieces - SumPcs(sold, "pcs_sold") + SumPcs(adjs, "pcs_delta"),
                    RAdd(RSub(bl[1].kg, SumKg(sold, "kg_sold")), SumKg(adjs, "kg_delta")))

_batch_line_on_hand(ls, sl, batch_id, size_id) ==
    LET bl == SelectSeq(ls, LAMBDA r : r.batch_id = batch_id /\ r.size_id = size_id)
        sold == SelectSeq(sl, LAMBDA r : r.batch_id = batch_id /\ r.size_id = Some(size_id))
    IN  IF bl = <<>> THEN OnHand(0, RZero)
        ELSE OnHand(bl[1].pieces - SumPcs(sold, "pcs_sold"),
                    RSub(bl[1].kg, SumKg(sold, "kg_sold")))

RECURSIVE OrderByIdOnly(_, _)
OrderByIdOnly(bs, S) ==
    IF S = {} THEN <<>>
    ELSE LET first == CHOOSE i \in S : \A j \in S : i <= j
         IN  <<first>> \o OrderByIdOnly(bs, S \ {first})

\* ORDER BY b.receipt_date ASC, b.id ASC over the batch ids in S
RECURSIVE OrderByDateId(_, _)
OrderByDateId(bs, S) ==
    IF S = {} THEN <<>>
    ELSE LET first == CHOOSE i \in S : \A j \in S :
                          \/ bs[i].receipt_date < bs[j].receipt_date
                          \/ bs[i].receipt_date = bs[j].receipt_date /\ i <= j
         IN  <<first>> \o OrderByDateId(bs, S \ {first})

RECURSIVE Repeat(_, _)
Repeat(v, k) ==
    IF k <= 0 THEN <<>> ELSE <<v>> \o Repeat(v, k - 1)

\* the rows the FIFO join yields for batch i: one per line of the size, kept
\* when both size-level on-hand figures are positive
CandidateRows(bs, ls, sl, i, size_id) ==
    LET onhand == _batch_line_on_hand(ls, sl, i, size_id)
        nlines == Cardinality({k \in 1..Len(ls) :
                                  ls[k].batch_id = i /\ ls[k].size_id = size_id})
    IN  IF onhand.pcs > 0 /\ RLt(RZero, onhand.kg)
            THEN Repeat([batch_id |-> i,
                         receipt_date |-> bs[i].receipt_date,
                         avg_kg_per_piece |-> bs[i].batch_avg_kg_per_piece,
                         pcs_on_hand |-> onhand.pcs,
                         kg_on_hand |-> onhand.kg], nlines)
        ELSE <<>>

RECURSIVE CandidateList(_, _, _, _, _)
CandidateList(bs, ls, sl, ids, size_id) ==
    IF ids = <<>> THEN <<>>
    ELSE CandidateRows(bs, ls, sl, ids[1], size_id)
             \o CandidateList(bs, ls, sl, Tail(ids), size_id)

\* OPEN batches of the branch carrying the size, oldest receipt first
_fifo_batches_for_size(bs, ls, sl, branch_id, size_id) ==
    LET joined == {i \in 1..Len(bs) :
                      /\ bs[i].status = "OPEN"
                      /\ bs[i].branch_id = branch_id
                      /\ \E k \in 1..Len(ls) : ls[k].batch_id = i /\ ls[k].size_id = size_id}
    IN  CandidateList(bs, ls, sl, OrderByDateId(bs, joined), size_id)

-----------------------------------------------------------------------------
(* Sale recorder (core/services/sales.py).                                 *)

SaleResult(sale_id, pcs_sold, kg_sold, variance_flag, pcs_suggested) ==
    [sale_id |-> sale_id, pcs_sold |-> pcs_sold, kg_sold |-> kg_sold,
     variance_flag |-> variance_flag, pcs_suggested |-> pcs_suggested]

SaleRow(mode, branch_id, batch_id, size_id, pcs_sold, kg_sold, unit_price, price_basis, total_price, pcs_suggested, variance_flag) ==
    [mode |-> mode, branch_id |-> branch_id, batch_id |-> batch_id,
     size_id |-> size_id, pcs_sold |-> pcs_sold, kg_sold |-> kg_sold,
     unit_price |-> unit_price, price_basis |-> price_basis,
     total_price |-> total_price, pcs_suggested |-> pcs_suggested,
     variance_flag |-> variance_flag]

\* the foreign keys of the sales table (size_id may be NULL)
InsertSaleError(bs, branch_id, batch_id, size_id) ==
    IF \/ branch_id \notin Branches
       \/ batch_id \notin 1..Len(bs)
       \/ (size_id # None /\ size_id[1] \notin Sizes)
        THEN IntegrityError("FOREIGN KEY constraint failed")
    ELSE OK

_get_batch_avg_pieces_per_kg(bs, batch_id) ==
    IF batch_id \notin 1..Len(bs)
        THEN [err |-> ValueError("Batch not found."), avg |-> RZero]
    ELSE IF RLeq(bs[batch_id].batch_avg_kg_per_piece, RZero)
        THEN [err |-> ValueError("Batch average kg/pc must be > 0."), avg |-> RZero]
    ELSE [err |-> OK, avg |-> safe_div(RInt(bs[batch_id].initial_pieces),
                                       bs[batch_id].initial_kg)]

\* [err, avg]: the batch's batch_avg_kg_per_piece, or the error raised
_get_batch_avg(bs, batch_id) ==
    IF batch_id \notin 1..Len(bs)
        THEN [err |-> ValueError("Batch not found."), avg |-> RZero]
    ELSE IF RLeq(bs[batch_id].batch_avg_kg_per_piece, RZero)
        THEN [err |-> ValueError("Batch average kg/pc must be > 0."), avg |-> RZero]
    ELSE [err |-> OK, avg |-> bs[batch_id].batch_avg_kg_per_piece]

\* [err, pb]; an empty basis defaults to PER_KG
_normalize_price_basis(price_basis) ==
    IF price_basis = "" THEN [err |-> OK, pb |-> "PER_KG"]
    ELSE IF price_basis \in {"PER_KG", "PER_PIECE"} THEN [err |-> OK, pb |-> price_basis]
    ELSE [err |-> ValueError("Invalid price_basis. Use 'PER_KG' or 'PER_PIECE'."),
          pb |-> price_basis]

\* round(v, 2)
Round2(v) ==
    Rat(PyRound(RMul(v, RInt(100))), 100)

_compute_total_price(unit_price, price_basis, kg_sold, pcs_sold) ==
    IF unit_price = None THEN None
    ELSE IF RLeq(unit_price[1], RZero) THEN None
    ELSE IF price_basis = "PER_PIECE" THEN Some(Round2(RMul(RInt(pcs_sold), unit_price[1])))
    ELSE Some(Round2(RMul(kg_sold, unit_price[1])))

_normalize_total_price_zero_kept(total_price) ==
    IF total_price = None THEN None
    ELSE IF RLt(total_price[1], RZero) THEN None
    ELSE total_price

_normalize_total_price(total_price) ==
    IF total_price = None THEN None
    ELSE IF RLeq(total_price[1], RZero) THEN None
    ELSE total_price

create_retail_sale_zero_accepted(bs, sl, a) ==
    LET fail(e) == [sales |-> sl, err |-> e, res |-> <<>>]
        nb == _normalize_price_basis(a.price_basis)
        ga == _get_batch_avg(bs, a.batch_id)
        kg_sold == RMul(RInt(a.pcs_sold), ga.avg)
        tp0 == _normalize_total_price(a.total_price)
        tp == IF tp0 = None
                  THEN _compute_total_price(a.unit_price, nb.pb, kg_sold, a.pcs_sold)
              ELSE tp0
        ie == InsertSaleError(bs, a.branch_id, a.batch_id, a.size_id)
    IN  IF a.pcs_sold < 0 THEN fail(ValueError("Pieces sold must be > 0."))
        ELSE IF nb.err # OK THEN fail(nb.err)
        ELSE IF ga.err # OK THEN fail(ga.err)
        ELSE IF ie # OK THEN fail(ie)
        ELSE [sales |-> Append(sl, SaleRow("RETAIL_PCS", a.branch_id, a.batch_id, a.size_id,
                                           a.pcs_sold, kg_sold, a.unit_price, nb.pb, tp,
                                           None, 0)),
              err |-> OK,
              res |-> <<SaleResult(Len(sl) + 1, a.pcs_sold, kg_sold, 0, None)>>]

create_retail_sale_line_avg(bs, sl, a) ==
    LET fail(e) == [sales |-> sl, err |-> e, res |-> <<>>]
        nb == _normalize_price_basis(a.price_basis)
        ga == _get_batch_avg(bs, a.batch_id)
        of_size == {l \in 1..Len(batch_lines) :
                        /\ batch_lines[l].batch_id = a.batch_id
                        /\ Some(batch_lines[l].size_id) = a.size_id}
        line_avg == IF of_size = {} THEN ga.avg
                    ELSE batch_lines[CHOOSE l \in of_size : TRUE].avg_kg_per_piece
        kg_sold == RMul(RInt(a.pcs_sold), line_avg)
        tp0 == _normalize_total_price(a.total_price)
        tp == IF tp0 = None
                  THEN _compute_total_price(a.unit_price, nb.pb, kg_sold, a.pcs_sold)
              ELSE tp0
        ie == InsertSaleError(bs, a.branch_id, a.batch_id, a.size_id)
    IN  IF a.pcs_sold <= 0 THEN fail(ValueError("Pieces sold must be > 0."))
        ELSE IF nb.err # OK THEN fail(nb.err)
        ELSE IF ga.err # OK THEN fail(ga.err)
        ELSE IF ie # OK THEN fail(ie)
        ELSE [sales |-> Append(sl, SaleRow("RETAIL_PCS", a.branch_id, a.batch_id, a.size_id,
                                           a.pcs_sold, kg_sold, a.unit_price, nb.pb, tp,
                                           None, 0)),
              err |-> OK,
              res |-> <<SaleResult(Len(sl) + 1, a.pcs_sold, kg_sold, 0, None)>>]

\* create_retail_sale on the tables; a holds the call's arguments
\* [branch_id, batch_id, size_id, pcs_sold, unit_price, price_basis, total_price]
create_retail_sale(bs, sl, a) ==
    LET fail(e) == [sales |-> sl, err |-> e, res |-> <<>>]
        nb == _normalize_price_basis(a.price_basis)
        ga == _get_batch_avg(bs, a.batch_id)
        kg_sold == RMul(RInt(a.pcs_sold), ga.avg)
        tp0 == _normalize_total_price(a.total_price)
        tp == IF tp0 = None
                  THEN _compute_total_price(a.unit_price, nb.pb, kg_sold, a.pcs_sold)
              ELSE tp0
        ie == InsertSaleError(bs, a.branch_id, a.batch_id, a.size_id)
    IN  IF a.pcs_sold <= 0 THEN fail(ValueError("Pieces sold must be > 0."))
        ELSE IF nb.err # OK THEN fail(nb.err)
        ELSE IF ga.err # OK THEN fail(ga.err)
        ELSE IF ie # OK THEN fail(ie)
        ELSE [sales |-> Append(sl, SaleRow("RETAIL_PCS", a.branch_id, a.batch_id, a.size_id,
                                           a.pcs_sold, kg_sold, a.unit_price, nb.pb, tp,
                                           None, 0)),
              err |-> OK,
              res |-> <<SaleResult(Len(sl) + 1, a.pcs_sold, kg_sold, 0, None)>>]

variance_flag_inclusive(pcs_counted, pcs_suggested, tol) ==
    IF IAbs(pcs_counted - pcs_suggested) >= tol THEN 1 ELSE 0

\* 1 when counted and suggested pieces differ by more than the tolerance
variance_flag_of(pcs_counted, pcs_suggested, tol) ==
    IF IAbs(pcs_counted - pcs_suggested) > tol THEN 1 ELSE 0

\* create_wholesale_sale on the tables; a holds the call's arguments
\* [branch_id, batch_id, size_id, kg_sold, pcs_counted, tolerance_pcs,
\*  unit_price, price_basis, total_price]
create_wholesale_sale(bs, sl, a) ==
    LET fail(e) == [sales |-> sl, err |-> e, res |-> <<>>]
        tol == IMax(0, a.tolerance_pcs)
        nb == _normalize_price_basis(a.price_basis)
        ga == _get_batch_avg(bs, a.batch_id)
        pcs_suggested == PyRound(safe_div(a.kg_sold, ga.avg))
        variance_flag == variance_flag_of(a.pcs_counted, pcs_suggested, tol)
        tp0 == _normalize_total_price(a.total_price)
        tp == IF tp0 = None
                  THEN _compute_total_price(a.unit_price, nb.pb, a.kg_sold, a.pcs_counted)
              ELSE tp0
        ie == InsertSaleError(bs, a.branch_id, a.batch_id, a.size_id)
    IN  IF RLeq(a.kg_sold, RZero) THEN fail(ValueError("Kg sold must be > 0."))
        ELSE IF a.pcs_counted <= 0 THEN fail(ValueError("Counted pieces must be > 0."))
        ELSE IF nb.err # OK THEN fail(nb.err)
        ELSE IF ga.err # OK THEN fail(ga.err)
        ELSE IF ie # OK THEN fail(ie)
        ELSE [sales |-> Append(sl, SaleRow("WHOLESALE_KG", a.branch_id, a.batch_id, a.size_id,
                                           a.pcs_counted, a.kg_sold, a.unit_price, nb.pb, tp,
                                           Some(pcs_suggested), variance_flag)),
              err |-> OK,
              res |-> <<SaleResult(Len(sl) + 1, a.pcs_counted, a.kg_sold,
                                   variance_flag, Some(pcs_suggested))>>]

-----------------------------------------------------------------------------
(* FIFO allocator (core/services/sales.py).                                *)

\* the posting loop of create_retail_sale_fifo over the candidates left
RECURSIVE retail_fifo_loop_line_avg(_, _, _, _, _, _, _)
retail_fifo_loop_line_avg(bs, sl, fifo, remaining_pcs, results, a, pb) ==
    IF fifo = <<>> \/ remaining_pcs <= 0
        THEN [sales |-> sl, err |-> OK, res |-> results, remaining_pcs |-> remaining_pcs]
    ELSE LET b == fifo[1]
             take_pcs == IMin(remaining_pcs, b.pcs_on_hand)
             kg == RMul(RInt(take_pcs), safe_div(b.kg_on_hand, RInt(b.pcs_on_hand)))
             total_price == _compute_total_price(a.unit_price, pb, kg, take_pcs)
             r == create_retail_sale(bs, sl,
                      [branch_id |-> a.branch_id, batch_id |-> b.batch_id,
                       size_id |-> Some(a.size_id), pcs_sold |-> take_pcs,
                       unit_price |-> a.unit_price, price_basis |-> pb,
                       total_price |-> total_price])
         IN  IF take_pcs <= 0
                 THEN retail_fifo_loop_line_avg(bs, sl, Tail(fifo), remaining_pcs, results, a, pb)
             ELSE IF r.err # OK
                 THEN [sales |-> r.sales, err |-> r.err, res |-> results,
                       remaining_pcs |-> remaining_pcs]
             ELSE retail_fifo_loop_line_avg(bs, r.sales, Tail(fifo), remaining_pcs - take_pcs,
                                   results \o r.res, a, pb)

RECURSIVE retail_fifo_loop(_, _, _, _, _, _, _)
retail_fifo_loop(bs, sl, fifo, remaining_pcs, results, a, pb) ==
    IF fifo = <<>> \/ remaining_pcs <= 0
        THEN [sales |-> sl, err |-> OK, res |-> results, remaining_pcs |-> remaining_pcs]
    ELSE LET b == fifo[1]
             take_pcs == IMin(remaining_pcs, b.pcs_on_hand)
             kg == RMul(RInt(take_pcs), b.avg_kg_per_piece)
             total_price == _compute_total_price(a.unit_price, pb, kg, take_pcs)
             r == create_retail_sale(bs, sl,
                      [branch_id |-> a.branch_id, batch_id |-> b.batch_id,
                       size_id |-> Some(a.size_id), pcs_sold |-> take_pcs,
                       unit_price |-> a.unit_price, price_basis |-> pb,
                       total_price |-> total_price])
         IN  IF take_pcs <= 0
                 THEN retail_fifo_loop(bs, sl, Tail(fifo), remaining_pcs, results, a, pb)
             ELSE IF r.err # OK
                 THEN [sales |-> r.sales, err |-> r.err, res |-> results,
                       remaining_pcs |-> remaining_pcs]
             ELSE retail_fifo_loop(bs, r.sales, Tail(fifo), remaining_pcs - take_pcs,
                                   results \o r.res, a, pb)

\* create_retail_sale_fifo on the tables; a holds the call's arguments
\* [branch_id, size_id, pcs_sold, unit_price, price_basis]
create_retail_sale_fifo(bs, ls, sl, a) ==
    LET fail(e) == [sales |-> sl, err |-> e, res |-> <<>>]
        nb == _normalize_price_basis(a.price_basis)
        fifo == _fifo_batches_for_size(bs, ls, sl, a.branch_id, a.size_id)
        r == retail_fifo_loop(bs, sl, fifo, a.pcs_sold, <<>>, a, nb.pb)
    IN  IF a.pcs_sold <= 0 THEN fail(ValueError("Pieces sold must be > 0."))
        ELSE IF nb.err # OK THEN fail(nb.err)
        ELSE IF fifo = <<>> THEN fail(ValueError("No stock available for this size (FIFO)."))
        ELSE IF r.err # OK THEN [sales |-> r.sales, err |-> r.err, res |-> <<>>]
        ELSE IF r.remaining_pcs > 0
            THEN [sales |-> r.sales, res |-> <<>>,
                  err |-> ValueError("Not enough pieces on hand across FIFO batches for this size.")]
        ELSE [sales |-> r.sales, err |-> OK, res |-> r.res]

RECURSIVE kg_allocations_whole(_, _, _)
kg_allocations_whole(fifo, remaining_kg, allocations) ==
    IF fifo = <<>> \/ RLeqInv(remaining_kg, EpsAlloc)
        THEN [allocations |-> allocations, remaining_kg |-> remaining_kg]
    ELSE LET take_kg == fifo[1].kg_on_hand
         IN  IF RLeqInv(take_kg, EpsAlloc)
                 THEN kg_allocations_whole(Tail(fifo), remaining_kg, allocations)
             ELSE kg_allocations_whole(Tail(fifo), RSub(remaining_kg, take_kg),
                                       Append(allocations, [b |-> fifo[1], take_kg |-> take_kg]))

\* the kg allocation loop of create_wholesale_sale_fifo
RECURSIVE kg_allocations(_, _, _)
kg_allocations(fifo, remaining_kg, allocations) ==
    IF fifo = <<>> \/ RLeqInv(remaining_kg, EpsAlloc)
        THEN [allocations |-> allocations, remaining_kg |-> remaining_kg]
    ELSE LET take_kg == RMin(remaining_kg, fifo[1].kg_on_hand)
         IN  IF RLeqInv(take_kg, EpsAlloc)
                 THEN kg_allocations(Tail(fifo), remaining_kg, allocations)
             ELSE kg_allocations(Tail(fifo), RSub(remaining_kg, take_kg),
                                 Append(allocations, [b |-> fifo[1], take_kg |-> take_kg]))

pieces_for_slice_unclamped(i, n, take_kg, kg_remaining_total, pcs_remaining) ==
    IF i < n
        THEN IF RLt(RZero, kg_remaining_total)
                 THEN PyRound(RMul(RDiv(take_kg, kg_remaining_total), RInt(pcs_remaining)))
             ELSE 1
    ELSE pcs_remaining

pieces_for_slice_truncated(i, n, take_kg, kg_remaining_total, pcs_remaining) ==
    IF i < n
        THEN LET min_needed_for_rest == n - i
                 raw == IF RLt(RZero, kg_remaining_total)
                            THEN RMul(RDiv(take_kg, kg_remaining_total), RInt(pcs_remaining))
                        ELSE RInt(1)
             IN  IMin(IMax(1, raw.n \div raw.d), pcs_remaining - min_needed_for_rest)
    ELSE pcs_remaining

\* pcs_alloc of slice i (1-based) of n, before the last slice and for it
pieces_for_slice(i, n, take_kg, kg_remaining_total, pcs_remaining) ==
    IF i < n
        THEN LET min_needed_for_rest == n - i
                 raw == IF RLt(RZero, kg_remaining_total)
                            THEN RMul(RDiv(take_kg, kg_remaining_total), RInt(pcs_remaining))
                        ELSE RInt(1)
             IN  IMin(IMax(1, PyRound(raw)), pcs_remaining - min_needed_for_rest)
    ELSE pcs_remaining

RECURSIVE wholesale_fifo_loop_keep_pieces(_, _, _, _, _, _, _, _, _)
wholesale_fifo_loop_keep_pieces(bs, sl, allocations, i, pcs_remaining, kg_remaining_total, results, a, pb) ==
    IF i > Len(allocations) THEN [sales |-> sl, err |-> OK, res |-> results]
    ELSE LET b == allocations[i].b
             take_kg == allocations[i].take_kg
             tol == IMax(0, a.tolerance_pcs)
             pcs_suggested == PyRound(safe_div(take_kg, b.avg_kg_per_piece))
             pcs_alloc == pieces_for_slice(i, Len(allocations), take_kg,
                                           kg_remaining_total, pcs_remaining)
             variance_flag == IF IAbs(pcs_alloc - pcs_suggested) > tol THEN 1 ELSE 0
             total_price == _compute_total_price(a.unit_price, pb, take_kg, pcs_alloc)
             ie == InsertSaleError(bs, a.branch_id, b.batch_id, Some(a.size_id))
         IN  IF ie # OK THEN [sales |-> sl, err |-> ie, res |-> results]
             ELSE wholesale_fifo_loop_keep_pieces(bs,
                      Append(sl, SaleRow("WHOLESALE_KG", a.branch_id, b.batch_id,
                                         Some(a.size_id), pcs_alloc, take_kg, a.unit_price,
                                         pb, total_price, Some(pcs_suggested), variance_flag)),
                      allocations, i + 1, pcs_remaining,
                      RSub(kg_remaining_total, take_kg),
                      Append(results, SaleResult(Len(sl) + 1, pcs_alloc, take_kg,
                                                 variance_flag, Some(pcs_suggested))),
                      a, pb)

RECURSIVE wholesale_fifo_loop_counted_variance(_, _, _, _, _, _, _, _, _)
wholesale_fifo_loop_counted_variance(bs, sl, allocations, i, pcs_remaining, kg_remaining_total, results, a, pb) ==
    IF i > Len(allocations) THEN [sales |-> sl, err |-> OK, res |-> results]
    ELSE LET b == allocations[i].b
             take_kg == allocations[i].take_kg
             tol == IMax(0, a.tolerance_pcs)
             pcs_suggested == PyRound(safe_div(take_kg, b.avg_kg_per_piece))
             pcs_alloc == pieces_for_slice(i, Len(allocations), take_kg,
                                           kg_remaining_total, pcs_remaining)
             variance_flag == IF IAbs(a.pcs_counted - pcs_suggested) > tol THEN 1 ELSE 0
             total_price == _compute_total_price(a.unit_price, pb, take_kg, pcs_alloc)
             ie == InsertSaleError(bs, a.branch_id, b.batch_id, Some(a.size_id))
         IN  IF ie # OK THEN [sales |-> sl, err |-> ie, res |-> results]
             ELSE wholesale_fifo_loop_counted_variance(bs,
                      Append(sl, SaleRow("WHOLESALE_KG", a.branch_id, b.batch_id,
                                         Some(a.size_id), pcs_alloc, take_kg, a.unit_price,
                                         pb, total_price, Some(pcs_suggested), variance_flag)),
                      allocations, i + 1, pcs_remaining - pcs_alloc,
                      RSub(kg_remaining_total, take_kg),
                      Append(results, SaleResult(Len(sl) + 1, pcs_alloc, take_kg,
                                                 variance_flag, Some(pcs_suggested))),
                      a, pb)

\* the posting loop of create_wholesale_sale_fifo from slice i on
RECURSIVE wholesale_fifo_loop(_, _, _, _, _, _, _, _, _)
wholesale_fifo_loop(bs, sl, allocations, i, pcs_remaining, kg_remaining_total, results, a, pb) ==
    IF i > Len(allocations) THEN [sales |-> sl, err |-> OK, res |-> results]
    ELSE LET b == allocations[i].b
             take_kg == allocations[i].take_kg
             tol == IMax(0, a.tolerance_pcs)
             pcs_suggested == PyRound(safe_div(take_kg, b.avg_kg_per_piece))
             pcs_alloc == pieces_for_slice(i, Len(allocations), take_kg,
                                           kg_remaining_total, pcs_remaining)
             variance_flag == IF IAbs(pcs_alloc - pcs_suggested) > tol THEN 1 ELSE 0
             total_price == _compute_total_price(a.unit_price, pb, take_kg, pcs_alloc)
             ie == InsertSaleError(bs, a.branch_id, b.batch_id, Some(a.size_id))
         IN  IF ie # OK THEN [sales |-> sl, err |-> ie, res |-> results]
             ELSE wholesale_fifo_loop(bs,
                      Append(sl, SaleRow("WHOLESALE_KG", a.branch_id, b.batch_id,
                                         Some(a.size_id), pcs_alloc, take_kg, a.unit_price,
                                         pb, total_price, Some(pcs_suggested), variance_flag)),
                      allocations, i + 1, pcs_remaining - pcs_alloc,
                      RSub(kg_remaining_total, take_kg),
                      Append(results, SaleResult(Len(sl) + 1, pcs_alloc, take_kg,
                                                 variance_flag, Some(pcs_suggested))),
                      a, pb)

RECURSIVE SumTakeKg(_)
SumTakeKg(allocations) ==
    IF allocations = <<>> THEN RZero
    ELSE RAdd(allocations[1].take_kg, SumTakeKg(Tail(allocations)))

too_few_pieces_or_equal(pcs_counted, allocations) ==
    pcs_counted <= Len(allocations)

\* the guard before the posting loop: fewer counted pieces than slices
too_few_pieces(pcs_counted, allocations) ==
    pcs_counted < Len(allocations)

create_wholesale_sale_fifo_late_guard(bs, ls, sl, a) ==
    LET fail(e) == [sales |-> sl, err |-> e, res |-> <<>>]
        nb == _normalize_price_basis(a.price_basis)
        fifo == _fifo_batches_for_size(bs, ls, sl, a.branch_id, a.size_id)
        al == kg_allocations(fifo, a.kg_sold, <<>>)
        r == wholesale_fifo_loop(bs, sl, al.allocations, 1, a.pcs_counted,
                                 SumTakeKg(al.allocations), <<>>, a, nb.pb)
    IN  IF RLeq(a.kg_sold, RZero) THEN fail(ValueError("Kg sold must be > 0."))
        ELSE IF a.pcs_counted <= 0 THEN fail(ValueError("Counted pieces must be > 0."))
        ELSE IF nb.err # OK THEN fail(nb.err)
        ELSE IF fifo = <<>> THEN fail(ValueError("No stock available for this size (FIFO)."))
        ELSE IF ~RLeqInv(al.remaining_kg, EpsShort)
            THEN fail(ValueError("Not enough kg on hand across FIFO batches for this size."))
        ELSE IF r.err # OK THEN [sales |-> r.sales, err |-> r.err, res |-> <<>>]
        ELSE IF too_few_pieces(a.pcs_counted, al.allocations)
            THEN [sales |-> r.sales, res |-> <<>>,
                  err |-> ValueError("This sale spans more FIFO batches than counted pieces.")]
        ELSE r

\* create_wholesale_sale_fifo on the tables; a holds the call's arguments
\* [branch_id, size_id, kg_sold, pcs_counted, tolerance_pcs, unit_price, price_basis]
create_wholesale_sale_fifo(bs, ls, sl, a) ==
    LET fail(e) == [sales |-> sl, err |-> e, res |-> <<>>]
        nb == _normalize_price_basis(a.price_basis)
        fifo == _fifo_batches_for_size(bs, ls, sl, a.branch_id, a.size_id)
        al == kg_allocations(fifo, a.kg_sold, <<>>)
        r == wholesale_fifo_loop(bs, sl, al.allocations, 1, a.pcs_counted,
                                 SumTakeKg(al.allocations), <<>>, a, nb.pb)
    IN  IF RLeq(a.kg_sold, RZero) THEN fail(ValueError("Kg sold must be > 0."))
        ELSE IF a.pcs_counted <= 0 THEN fail(ValueError("Counted pieces must be > 0."))
        ELSE IF nb.err # OK THEN fail(nb.err)
        ELSE IF fifo = <<>> THEN fail(ValueError("No stock available for this size (FIFO)."))
        ELSE IF ~RLeqInv(al.remaining_kg, EpsShort)
            THEN fail(ValueError("Not enough kg on hand across FIFO batches for this size."))
        ELSE IF too_few_pieces(a.pcs_counted, al.allocations)
            THEN fail(ValueError("This sale spans more FIFO batches than counted pieces."))
        ELSE IF r.err # OK THEN [sales |-> r.sales, err |-> r.err, res |-> <<>>]
        ELSE r

-----------------------------------------------------------------------------
(* Closure engine (core/services/closures.py) and the adjustment form of   *)
(* pages/2_Inventory.py.                                                   *)

AdjustmentRow(batch_id, reason, pcs_delta, kg_delta) ==
    [batch_id |-> batch_id, reason |-> reason, pcs_delta |-> pcs_delta,
     kg_delta |-> kg_delta]

ClosureRow(batch_id, loss_kg, loss_pct) ==
    [batch_id |-> batch_id, closed_ts |-> Now, loss_kg |-> loss_kg, loss_pct |-> loss_pct]

\* UNIQUE(batch_id) of the batch_closures table
InsertClosureError(cl, batch_id) ==
    IF \E i \in 1..Len(cl) : cl[i].batch_id = batch_id
        THEN IntegrityError("UNIQUE constraint failed: batch_closures.batch_id")
    ELSE OK

\* the auto-zero condition: pieces exactly 0 and |kg| within the tolerance
auto_zero_kg_only(onhand, auto_zero_tolerance_kg) ==
    RLeq(RAbs(onhand.kg), auto_zero_tolerance_kg)

auto_zero_applies(onhand, auto_zero_tolerance_kg) ==
    RLeq(RAbs(onhand.kg), auto_zero_tolerance_kg) /\ onhand.pcs = 0

\* UPDATE batches SET status='CLOSED', closed_at=? WHERE id=?
mark_closed_stamp_only(bs, batch_id) ==
    [bs EXCEPT ![batch_id].closed_at = Now]

mark_closed(bs, batch_id) ==
    [bs EXCEPT ![batch_id].status = "CLOSED", ![batch_id].closed_at = Now]

\* the status check at the head of close_batch
already_closed_unchecked(b) ==
    FALSE

already_closed(b) ==
    b.status = "CLOSED"

loss_kg_clamped(initial_kg, kg_sold) ==
    IF RLt(initial_kg, kg_sold) THEN RZero ELSE RSub(initial_kg, kg_sold)

\* loss_kg = initial_kg - kg_sold, of either sign
loss_kg_of(initial_kg, kg_sold) ==
    RSub(initial_kg, kg_sold)

close_to_zero_row_unsigned(batch_id, onhand) ==
    AdjustmentRow(batch_id, "CLOSE_TO_ZERO", 0, onhand.kg)

\* the audit row of the auto-zero step
close_to_zero_row(batch_id, onhand) ==
    AdjustmentRow(batch_id, "CLOSE_TO_ZERO", 0, RNeg(onhand.kg))

not_depleted_pieces_only(onhand) ==
    onhand.pcs # 0

\* the depletion check: pieces off 0, or |kg| above 1e-6
not_depleted(onhand) ==
    onhand.pcs # 0 \/ ~RLeqInv(RAbs(onhand.kg), EpsClosed)

post_close_to_zero_replacing(adj, batch_id, onhand) ==
    <<close_to_zero_row(batch_id, onhand)>>

\* INSERT INTO inventory_adjustments of the auto-zero step
post_close_to_zero(adj, batch_id, onhand) ==
    Append(adj, close_to_zero_row(batch_id, onhand))

\* close_batch on the tables: the tables after the call, the error raised and
\* the dict returned
close_batch(bs, sl, adj, cl, batch_id, auto_zero_tolerance_kg) ==
    LET fail(aj, e) == [batches |-> bs, inventory_adjustments |-> aj,
                        batch_closures |-> cl, err |-> e, res |-> <<>>]
        onhand0 == batch_on_hand(bs, sl, adj, batch_id)
        auto == /\ auto_zero_applies(onhand0, auto_zero_tolerance_kg)
                /\ onhand0.kg # RZero
        adj2 == IF auto
                    THEN post_close_to_zero(adj, batch_id, onhand0)
                ELSE adj
        onhand == IF auto THEN batch_on_hand(bs, sl, adj2, batch_id) ELSE onhand0
        sold == SelectSeq(sl, LAMBDA r : r.batch_id = batch_id)
        loss_kg == loss_kg_of(bs[batch_id].initial_kg, SumKg(sold, "kg_sold"))
        loss_pct == RMul(safe_div(loss_kg, bs[batch_id].initial_kg), RInt(100))
    IN  IF batch_id \notin 1..Len(bs) THEN fail(adj, ValueError("Batch not found."))
        ELSE IF already_closed(bs[batch_id])
            THEN fail(adj, ValueError("Batch already closed."))
        ELSE IF not_depleted(onhand)
            THEN fail(adj2, ValueError("Batch is not depleted."))
        ELSE IF InsertClosureError(cl, batch_id) # OK
            THEN fail(adj2, InsertClosureError(cl, batch_id))
        ELSE [batches |-> mark_closed(bs, batch_id),
              inventory_adjustments |-> adj2,
              batch_closures |-> Append(cl, ClosureRow(batch_id, loss_kg, loss_pct)),
              err |-> OK,
              res |-> <<[loss_kg |-> loss_kg, loss_pct |-> loss_pct]>>]

\* the "Post Adjustment" button: one insert for a batch picked among the OPEN ones
post_adjustment(bs, adj, batch_id, reason, pcs_delta, kg_delta) ==
    Append(adj, AdjustmentRow(batch_id, reason, pcs_delta, kg_delta))

-----------------------------------------------------------------------------
(* Inputs the callers draw from.                                           *)

Dates == {1, 2}

\* a size id no row of sizes has
BadSize == Cardinality(Sizes) + 1

KgIn == {RInt(1), RInt(2)}

PriceIn == Some(RInt(5))

CallerCodes == {<<"RCPT", "001">>}

Line(size_id, pieces, kg) ==
    BatchLineInput(size_id, pieces, RInt(kg), None)

PLine(size_id, pieces, kg, price) ==
    BatchLineInput(size_id, pieces, RInt(kg), price)

\* line lists given to create_batch: a one-line list, a two-size list, a list
\* with two lines of one size, and a list whose second line names a missing size
BatchLineLists ==
    {<<Line(1, MaxPcs, 1)>>, <<Line(1, 1, 1), Line(2, 1, 2)>>,
     <<Line(1, 1, 1), Line(1, 1, 1)>>,
     <<Line(1, 1, 1), Line(BadSize, 1, 1)>>}

\* line lists given to create_batches_from_purchase: one or two priced lines,
\* an empty row, an empty row before a priced line, and a list whose second
\* line has no price
PurchaseLineLists ==
    {<<PLine(1, MaxPcs, 1, PriceIn)>>,
     <<PLine(1, 1, 1, PriceIn), PLine(1, MaxPcs, 2, PriceIn)>>,
     <<PLine(1, 0, 1, PriceIn)>>,
     <<PLine(2, 0, 1, None), PLine(1, 1, 1, PriceIn)>>,
     <<PLine(1, 1, 1, PriceIn), PLine(2, 1, 1, None)>>}

RetailArgs ==
    [branch_id : {1}, batch_id : 1..MaxBatches, size_id : {Some(1)},
     pcs_sold : {1}, unit_price : {None}, price_basis : {"PER_KG"},
     total_price : {None}]

WholesaleArgs ==
    [branch_id : {1}, batch_id : 1..MaxBatches, size_id : {Some(1)},
     kg_sold : {RInt(1)}, pcs_counted : {1}, tolerance_pcs : {0},
     unit_price : {None}, price_basis : {"PER_KG"}, total_price : {None}]

RetailFifoArgs ==
    [branch_id : {1}, size_id : {1}, pcs_sold : 1..(MaxPcs + 1),
     unit_price : {None}, price_basis : {"PER_KG"}]

WholesaleFifoArgs ==
    [branch_id : {1}, size_id : {1}, kg_sold : KgIn \cup {RInt(3)},
     pcs_counted : 1..MaxPcs, tolerance_pcs : {0},
     unit_price : {None}, price_basis : {"PER_KG"}]

ToleranceIn == {Rat(1, 4), RInt(1)}

AdjustIn == {<<-1, RInt(-1)>>}

-----------------------------------------------------------------------------
(* The state machine: one action per call of a core operation.             *)

\* rows: the sale rows the call left in the sales table
Call(op, err, rows) ==
    [op |-> op, cls |-> err.cls, rows |-> rows]

Init ==
    /\ batches = <<>>
    /\ batch_lines = <<>>
    /\ sales = <<>>
    /\ inventory_adjustments = <<>>
    /\ batch_closures = <<>>
    /\ last = Call("init", OK, 0)

CreateBatch(code, date, branch_id, price, lns) ==
    LET r == create_batch(batches, batch_lines, code, date, branch_id, price, lns)
    IN  /\ Len(batches) < MaxBatches
        /\ batches' = r.batches
        /\ batch_lines' = r.batch_lines
        /\ last' = IF r.batches = batches THEN last ELSE Call("create_batch", r.err, 0)
        /\ UNCHANGED <<sales, inventory_adjustments, batch_closures>>

CreateBatchesFromPurchase(date, branch_id, lns) ==
    LET r == create_batches_from_purchase(batches, batch_lines, date, branch_id, lns)
    IN  /\ Len(batches) + Len(lns) <= MaxBatches
        /\ batches' = r.batches
        /\ batch_lines' = r.batch_lines
        /\ last' = IF r.batches = batches THEN last
                   ELSE Call("create_batches_from_purchase", r.err, 0)
        /\ UNCHANGED <<sales, inventory_adjustments, batch_closures>>

CreateRetailSale(a) ==
    LET r == create_retail_sale(batches, sales, a)
    IN  /\ Len(sales) < MaxSales
        /\ sales' = r.sales
        /\ last' = IF r.sales = sales THEN last ELSE Call("create_retail_sale", r.err, Len(r.sales) - Len(sales))
        /\ UNCHANGED <<batches, batch_lines, inventory_adjustments, batch_closures>>

CreateWholesaleSale(a) ==
    LET r == create_wholesale_sale(batches, sales, a)
    IN  /\ Len(sales) < MaxSales
        /\ sales' = r.sales
        /\ last' = IF r.sales = sales THEN last ELSE Call("create_wholesale_sale", r.err, Len(r.sales) - Len(sales))
        /\ UNCHANGED <<batches, batch_lines, inventory_adjustments, batch_closures>>

CreateRetailSaleFifo(a) ==
    LET r == create_retail_sale_fifo(batches, batch_lines, sales, a)
    IN  /\ Len(sales) < MaxSales
        /\ Len(r.sales) <= MaxSales
        /\ sales' = r.sales
        /\ last' = IF r.sales = sales THEN last ELSE Call("create_retail_sale_fifo", r.err, Len(r.sales) - Len(sales))
        /\ UNCHANGED <<batches, batch_lines, inventory_adjustments, batch_closures>>

CreateWholesaleSaleFifo(a) ==
    LET r == create_wholesale_sale_fifo(batches, batch_lines, sales, a)
    IN  /\ Len(sales) < MaxSales
        /\ Len(r.sales) <= MaxSales
        /\ sales' = r.sales
        /\ last' = IF r.sales = sales THEN last
                   ELSE Call("create_wholesale_sale_fifo", r.err, Len(r.sales) - Len(sales))
        /\ UNCHANGED <<batches, batch_lines, inventory_adjustments, batch_closures>>

CloseBatch(batch_id, tol) ==
    LET r == close_batch(batches, sales, inventory_adjustments, batch_closures,
                         batch_id, tol)
    IN  /\ Len(r.inventory_adjustments) <= MaxAdj
        /\ batches' = r.batches
        /\ inventory_adjustments' = r.inventory_adjustments
        /\ batch_closures' = r.batch_closures
        /\ last' = IF r.batches = batches /\ r.inventory_adjustments = inventory_adjustments
                       THEN last
                   ELSE Call("close_batch", r.err, 0)
        /\ UNCHANGED <<batch_lines, sales>>

PostAdjustment(batch_id, reason, pcs_delta, kg_delta) ==
    /\ Len(inventory_adjustments) < MaxAdj
    /\ batch_id \in 1..Len(batches)
    /\ batches[batch_id].status = "OPEN"
    /\ inventory_adjustments' =
           post_adjustment(batches, inventory_adjustments, batch_id, reason,
                           pcs_delta, kg_delta)
    /\ last' = Call("post_adjustment", OK, 0)
    /\ UNCHANGED <<batches, batch_lines, sales, batch_closures>>

Next ==
    \/ \E code \in CallerCodes, lns \in BatchLineLists :
           CreateBatch(code, 1, 1, PriceIn, lns)
    \/ \E date \in Dates, lns \in PurchaseLineLists :
           CreateBatchesFromPurchase(date, 1, lns)
    \/ \E a \in RetailArgs : CreateRetailSale(a)
    \/ \E a \in WholesaleArgs : CreateWholesaleSale(a)
    \/ \E a \in RetailFifoArgs : CreateRetailSaleFifo(a)
    \/ \E a \in WholesaleFifoArgs : CreateWholesaleSaleFifo(a)
    \/ \E b \in 1..MaxBatches, tol \in ToleranceIn : CloseBatch(b, tol)
    \/ \E b \in 1..MaxBatches, d \in AdjustIn : PostAdjustment(b, "WRITE_OFF", d[1], d[2])

Spec ==
    Init /\ [][Next]_vars

-----------------------------------------------------------------------------
(* Stock-in and wholesale FIFO sales alone, over up to three batches of    *)
(* one size, so that an allocation can span three candidates.              *)

MaxFifoBatches == 3

MaxFifoSales == 3

\* one purchase line of three pieces of size 1, of 1 or 2 kg
FifoStockLists ==
    {<<PLine(1, 3, kg, PriceIn)>> : kg \in {1, 2}}

FifoWholesaleArgs ==
    [branch_id : {1}, size_id : {1}, kg_sold : {RInt(1), Rat(3, 2), RInt(3)},
     pcs_counted : {1, 2, 4}, tolerance_pcs : {0},
     unit_price : {None}, price_basis : {"PER_KG"}]

FifoStockIn(date, branch_id, lns) ==
    LET r == create_batches_from_purchase(batches, batch_lines, date, branch_id, lns)
    IN  /\ Len(batches) + Len(lns) <= MaxFifoBatches
        /\ batches' = r.batches
        /\ batch_lines' = r.batch_lines
        /\ last' = IF r.batches = batches THEN last
                   ELSE Call("create_batches_from_purchase", r.err, 0)
        /\ UNCHANGED <<sales, inventory_adjustments, batch_closures>>

FifoWholesale(a) ==
    LET r == create_wholesale_sale_fifo(batches, batch_lines, sales, a)
    IN  /\ Len(sales) < MaxFifoSales
        /\ Len(r.sales) <= MaxFifoSales
        /\ sales' = r.sales
        /\ last' = IF r.sales = sales THEN last
                   ELSE Call("create_wholesale_sale_fifo", r.err, Len(r.sales) - Len(sales))
        /\ UNCHANGED <<batches, batch_lines, inventory_adjustments, batch_closures>>

NextFifo ==
    \/ \E date \in Dates, lns \in FifoStockLists : FifoStockIn(date, 1, lns)
    \/ \E a \in FifoWholesaleArgs : FifoWholesale(a)

SpecFifo ==
    Init /\ [][NextFifo]_vars

-----------------------------------------------------------------------------
(* Properties.                                                             *)

RECURSIVE SumOnHandPcs(_)
SumOnHandPcs(fifo) ==
    IF fifo = <<>> THEN 0 ELSE fifo[1].pcs_on_hand + SumOnHandPcs(Tail(fifo))

\* C1: a create_retail_sale_fifo call asking for more pieces than all FIFO
\* candidates of the branch and size hold together raises and leaves the
\* sales table as it was before the call.
C1_InsufficientFifoCommitsNothing ==
    [][\A a \in RetailFifoArgs :
          LET fifo == _fifo_batches_for_size(batches, batch_lines, sales,
                                             a.branch_id, a.size_id)
          IN  (CreateRetailSaleFifo(a) /\ a.pcs_sold > SumOnHandPcs(fifo))
                  => (sales' = sales)]_vars

\* C2: after a create_batch call, succeeded or failed, the batch row of the
\* call exists if and only if every line passed to the call exists for it.
C2_BatchAndLinesAllOrNothing ==
    [][\A code \in CallerCodes, lns \in BatchLineLists :
          CreateBatch(code, 1, 1, PriceIn, lns)
              => LET id == Len(batches) + 1
                     added == SubSeq(batch_lines', Len(batch_lines) + 1, Len(batch_lines'))
                 IN  (Len(batches') = id)
                         <=> (added = [k \in 1..Len(lns) |-> LineRow(id, lns[k])])]_vars

\* C3: a create_batches_from_purchase call that raises leaves batches and
\* batch_lines as they were before the call.
C3_FailedPurchaseLeavesStore ==
    [][\A date \in Dates, lns \in PurchaseLineLists :
          (/\ CreateBatchesFromPurchase(date, 1, lns)
           /\ create_batches_from_purchase(batches, batch_lines, date, 1, lns).err # OK)
              => (batches' = batches /\ batch_lines' = batch_lines)]_vars

\* the batch-level on-hand identity, summed row by row over the tables
RECURSIVE NetPcs(_, _, _, _)
NetPcs(sl, adj, batch_id, k) ==
    IF k = 0 THEN 0
    ELSE NetPcs(sl, adj, batch_id, k - 1)
             - (IF k <= Len(sl) /\ sl[k].batch_id = batch_id THEN sl[k].pcs_sold ELSE 0)
             + (IF k <= Len(adj) /\ adj[k].batch_id = batch_id THEN adj[k].pcs_delta ELSE 0)

RECURSIVE NetKg(_, _, _, _)
NetKg(sl, adj, batch_id, k) ==
    IF k = 0 THEN RZero
    ELSE RAdd(NetKg(sl, adj, batch_id, k - 1),
              RSub(IF k <= Len(adj) /\ adj[k].batch_id = batch_id
                       THEN adj[k].kg_delta ELSE RZero,
                   IF k <= Len(sl) /\ sl[k].batch_id = batch_id
                       THEN sl[k].kg_sold ELSE RZero))

Derived(batch_id) ==
    LET n == IMax(Len(sales), Len(inventory_adjustments))
    IN  OnHand(batches[batch_id].initial_pieces
                   + NetPcs(sales, inventory_adjustments, batch_id, n),
               RAdd(batches[batch_id].initial_kg,
                    NetKg(sales, inventory_adjustments, batch_id, n)))

Depleted(onhand) ==
    onhand.pcs = 0 /\ RLeqInv(RAbs(onhand.kg), EpsClosed)

CloseTolerances ==
    ToleranceIn \cup {RZero, RInt(3)}

NoRowChanged(r) ==
    /\ r.batches = batches
    /\ r.inventory_adjustments = inventory_adjustments
    /\ r.batch_closures = batch_closures

\* C4: close_batch on an OPEN batch whose on-hand, after the optional
\* auto-zero step, is not zero (pieces # 0 or |kg| > 1e-6) raises ValueError
\* and persists nothing; a close_batch that succeeds leaves the batch with a
\* derived on-hand of zero.
C4_BlockedCloseChangesNothing ==
    \A b \in 1..Len(batches), tol \in CloseTolerances :
        LET oh == Derived(b)
            zeroed == oh.pcs = 0 /\ RLeq(RAbs(oh.kg), tol)
            after == IF zeroed THEN OnHand(oh.pcs, RAdd(oh.kg, RNeg(oh.kg))) ELSE oh
            r == close_batch(batches, sales, inventory_adjustments, batch_closures, b, tol)
        IN  /\ (batches[b].status = "OPEN" /\ ~Depleted(after))
                   => (r.err.cls = "ValueError" /\ NoRowChanged(r))
            /\ r.err = OK
                   => /\ r.batches[b].status = "CLOSED"
                      /\ Depleted(batch_on_hand(r.batches, sales, r.inventory_adjustments, b))

\* a closure is blocked for one OPEN batch (no pieces, kg above a tolerance)
\* while close_batch has closed another batch
C4_Witness ==
    /\ last.op = "close_batch"
    /\ \E b \in 1..Len(batches) : batches[b].status = "CLOSED"
    /\ \E b \in 1..Len(batches) :
           /\ batches[b].status = "OPEN"
           /\ Derived(b).pcs = 0
           /\ RLt(Rat(1, 4), RAbs(Derived(b).kg))

\* C5: close_batch on a CLOSED batch raises ValueError ("already closed") and
\* changes no row, and no step takes a CLOSED batch back to OPEN.
C5_ClosedIsTerminal ==
    /\ [](\A b \in 1..Len(batches), tol \in CloseTolerances :
              batches[b].status = "CLOSED"
                  => LET r == close_batch(batches, sales, inventory_adjustments,
                                          batch_closures, b, tol)
                     IN  /\ r.err = ValueError("Batch already closed.")
                         /\ NoRowChanged(r))
    /\ [][\A b \in 1..Len(batches) :
              batches[b].status = "CLOSED"
                  => (b <= Len(batches') /\ batches'[b].status = "CLOSED")]_vars

\* a batch is CLOSED and a later call has changed the store
C5_Witness ==
    /\ \E b \in 1..Len(batches) : batches[b].status = "CLOSED"
    /\ last.op # "close_batch"

ClosuresOf(b) ==
    {k \in 1..Len(batch_closures) : batch_closures[k].batch_id = b}

\* C6: a batch is CLOSED if and only if exactly one batch_closures row exists
\* for it, and if and only if its closed_at is set; no batch ever has two
\* closure rows.
C6_ClosedIffOneClosure ==
    \A b \in 1..Len(batches) :
        /\ (batches[b].status = "CLOSED") <=> (Cardinality(ClosuresOf(b)) = 1)
        /\ (batches[b].status = "CLOSED") <=> (batches[b].closed_at # NULL)
        /\ Cardinality(ClosuresOf(b)) <= 1

\* close_batch has just closed one batch while another stays OPEN
C6_Witness ==
    /\ last = Call("close_batch", OK, 0)
    /\ \E b \in 1..Len(batches) : batches[b].status = "CLOSED"
    /\ \E b \in 1..Len(batches) : batches[b].status = "OPEN"

\* C7: for every existing batch batch_on_hand returns initial_pieces minus
\* the pcs_sold of its sales plus the pcs_delta of its adjustments, and the
\* same for kg; the call reads the tables only.
C7_OnHandIdentity ==
    \A b \in 1..Len(batches) :
        batch_on_hand(batches, sales, inventory_adjustments, b) = Derived(b)

\* a batch with a sale and an adjustment, so that on-hand differs from initial
C7_Witness ==
    \E b \in 1..Len(batches) :
        /\ \E k \in 1..Len(sales) : sales[k].batch_id = b
        /\ \E k \in 1..Len(inventory_adjustments) : inventory_adjustments[k].batch_id = b
        /\ batch_on_hand(batches, sales, inventory_adjustments, b).pcs
               # batches[b].initial_pieces

\* C8: a batch's batch_avg_kg_per_piece is total kg / total pieces of the
\* lines given to create_batch, and no step changes the batch_avg_kg_per_piece,
\* initial_pieces or initial_kg of an existing batch.
C8_AvgFrozen ==
    /\ [](\A b \in 1..Len(batches) :
              batches[b].batch_avg_kg_per_piece
                  = RDiv(batches[b].initial_kg, RInt(batches[b].initial_pieces)))
    /\ [][\A code \in CallerCodes, lns \in BatchLineLists :
              (CreateBatch(code, 1, 1, PriceIn, lns) /\ Len(batches') > Len(batches))
                  => LET b == batches'[Len(batches')]
                     IN  /\ b.initial_pieces = SumPcs(lns, "pieces")
                         /\ b.initial_kg = SumKg(lns, "kg")
                         /\ b.batch_avg_kg_per_piece
                                = RDiv(SumKg(lns, "kg"), RInt(SumPcs(lns, "pieces")))]_vars
    /\ [][\A b \in 1..Len(batches) :
              /\ b <= Len(batches')
              /\ batches'[b].batch_avg_kg_per_piece = batches[b].batch_avg_kg_per_piece
              /\ batches'[b].initial_pieces = batches[b].initial_pieces
              /\ batches'[b].initial_kg = batches[b].initial_kg]_vars

\* a two-line batch with avg 3/2 that has sales, an adjustment and a closure
C8_Witness ==
    \E b \in 1..Len(batches) :
        /\ batches[b].batch_avg_kg_per_piece = Rat(3, 2)
        /\ batches[b].status = "CLOSED"
        /\ \E k \in 1..Len(sales) : sales[k].batch_id = b
        /\ \E k \in 1..Len(inventory_adjustments) : inventory_adjustments[k].batch_id = b

\* batch i comes before batch j in receipt order (receipt_date, then id)
Older(i, j) ==
    \/ batches[i].receipt_date < batches[j].receipt_date
    \/ batches[i].receipt_date = batches[j].receipt_date /\ i < j

\* batch i is an OPEN batch of the branch holding pieces and kg of the size
Eligible(i, branch_id, size_id) ==
    /\ batches[i].status = "OPEN"
    /\ batches[i].branch_id = branch_id
    /\ _batch_line_on_hand(batch_lines, sales, i, size_id).pcs > 0
    /\ RLt(RZero, _batch_line_on_hand(batch_lines, sales, i, size_id).kg)

\* the rows new, posted for a request of pcs_sold pieces, follow FIFO over
\* the store before the call
FifoPosting(new, branch_id, size_id, pcs_sold) ==
    /\ Len(new) >= 1
    /\ SumPcs(new, "pcs_sold") = pcs_sold
    /\ \A k \in 1..Len(new) :
           LET row == new[k]
               before == SumPcs(SubSeq(new, 1, k - 1), "pcs_sold")
               onhand == _batch_line_on_hand(batch_lines, sales, row.batch_id, size_id)
           IN  /\ row.batch_id \in 1..Len(batches)
               /\ Eligible(row.batch_id, branch_id, size_id)
               /\ before < pcs_sold
               /\ row.pcs_sold = IMin(pcs_sold - before, onhand.pcs)
               /\ row.kg_sold = RMul(RInt(row.pcs_sold),
                                     batches[row.batch_id].batch_avg_kg_per_piece)
               /\ \A j \in 1..(k - 1) : ~Older(row.batch_id, new[j].batch_id)
               /\ \A i \in 1..Len(batches) :
                      (Eligible(i, branch_id, size_id) /\ Older(i, row.batch_id))
                          => \E j \in 1..(k - 1) : new[j].batch_id = i

\* three batches of one purchase holding 10, 5 and 20 pieces of size 1
ExampleStock ==
    create_batches_from_purchase(<<>>, <<>>, 1, 1,
        <<PLine(1, 10, 5, PriceIn), PLine(1, 5, 5, PriceIn), PLine(1, 20, 10, PriceIn)>>)

ExampleSale ==
    create_retail_sale_fifo(ExampleStock.batches, ExampleStock.batch_lines, <<>>,
        [branch_id |-> 1, size_id |-> 1, pcs_sold |-> 12,
         unit_price |-> None, price_basis |-> "PER_KG"])

\* C9: a create_retail_sale_fifo call whose request the candidates cover
\* succeeds and posts rows oldest receipt first (ties by batch id), skipping no
\* older candidate, each row with pcs_sold = min(pieces still to post, the
\* batch's on-hand pieces of the size before the call) and kg_sold = pcs_sold
\* times the batch's batch_avg_kg_per_piece, never posting once the remainder
\* is 0, the pieces summing to the request; on-hand 10, 5, 20 and a request of
\* 12 give rows of 10 and 2 pieces on the first two batches.
C9_RetailFifoAllocation ==
    /\ [](/\ ExampleSale.err = OK
          /\ [k \in 1..Len(ExampleSale.sales) |->
                 <<ExampleSale.sales[k].batch_id, ExampleSale.sales[k].pcs_sold,
                   ExampleSale.sales[k].kg_sold>>]
                 = << <<1, 10, RInt(5)>>, <<2, 2, RInt(2)>> >>)
    /\ [][\A a \in RetailFifoArgs :
              LET fifo == _fifo_batches_for_size(batches, batch_lines, sales,
                                                 a.branch_id, a.size_id)
              IN  (CreateRetailSaleFifo(a) /\ fifo # <<>> /\ a.pcs_sold <= SumOnHandPcs(fifo))
                      => /\ create_retail_sale_fifo(batches, batch_lines, sales, a).err = OK
                         /\ FifoPosting(SubSeq(sales', Len(sales) + 1, Len(sales')),
                                        a.branch_id, a.size_id, a.pcs_sold)]_vars

\* one retail FIFO call has just posted two rows, the first on batch 2, which
\* was received before batch 1, the second on batch 1 for the remainder
C9_Witness ==
    /\ last = Call("create_retail_sale_fifo", OK, 2)
    /\ Len(batches) >= 2
    /\ batches[2].receipt_date < batches[1].receipt_date
    /\ sales[Len(sales) - 1].batch_id = 2
    /\ sales[Len(sales)].batch_id = 1
    /\ sales[Len(sales)].pcs_sold < batches[1].initial_pieces

\* the requests the FIFO wrappers are evaluated on in each state
AnyRetailFifoArgs ==
    [branch_id : Branches, size_id : Sizes, pcs_sold : 1..(2 * MaxPcs + 1),
     unit_price : {None}, price_basis : {"PER_KG"}]

AnyWholesaleFifoArgs ==
    [branch_id : Branches, size_id : Sizes,
     kg_sold : {Rat(1, 2), RInt(1), Rat(4, 3), Rat(3, 2), RInt(2), RInt(3)},
     pcs_counted : 1..(2 * MaxPcs), tolerance_pcs : {0},
     unit_price : {None}, price_basis : {"PER_KG"}]

AllPositive(rows) ==
    \A k \in 1..Len(rows) : rows[k].pcs_sold >= 1 /\ RLt(RZero, rows[k].kg_sold)

\* C10: in every state, every row either FIFO wrapper posts, in a call that
\* succeeds or in one that raises after posting, has pcs_sold >= 1 and
\* kg_sold > 0, whatever the requested pieces, kg and counted pieces.
C10_FifoRowsPositive ==
    /\ \A a \in AnyRetailFifoArgs :
           LET r == create_retail_sale_fifo(batches, batch_lines, sales, a)
           IN  AllPositive(SubSeq(r.sales, Len(sales) + 1, Len(r.sales)))
    /\ \A a \in AnyWholesaleFifoArgs :
           LET r == create_wholesale_sale_fifo(batches, batch_lines, sales, a)
           IN  AllPositive(SubSeq(r.sales, Len(sales) + 1, Len(r.sales)))

\* one wholesale FIFO call has just posted two slices of one piece each on
\* two batches
C10_Witness ==
    /\ last = Call("create_wholesale_sale_fifo", OK, 2)
    /\ sales[Len(sales) - 1].batch_id # sales[Len(sales)].batch_id
    /\ sales[Len(sales) - 1].mode = "WHOLESALE_KG"
    /\ sales[Len(sales) - 1].pcs_sold = 1
    /\ sales[Len(sales)].pcs_sold = 1

-----------------------------------------------------------------------------
(* Wholesale FIFO properties, over SpecFifo.                               *)

\* the wholesale requests evaluated in each state
AnyFifoKg ==
    {Rat(1, 2), RInt(1), Rat(3, 2), RInt(2), Rat(5, 2), RInt(3), RInt(4), RInt(5), RInt(6)}

WideWholesaleArgs ==
    [branch_id : {1}, size_id : {1}, kg_sold : AnyFifoKg, pcs_counted : 1..5,
     tolerance_pcs : {0, 1}, unit_price : {None}, price_basis : {"PER_KG"}]

\* the requests with too few and with enough counted pieces for three slices
KgWholesaleArgs ==
    {a \in WideWholesaleArgs : a.tolerance_pcs = 0 /\ a.pcs_counted \in {2, 5}}

\* the rows a call with result r adds to the sales table
Posted(r) ==
    SubSeq(r.sales, Len(sales) + 1, Len(r.sales))

RECURSIVE SumOnHandKg(_)
SumOnHandKg(fifo) ==
    IF fifo = <<>> THEN RZero ELSE RAdd(fifo[1].kg_on_hand, SumOnHandKg(Tail(fifo)))

\* the rows new, posted for a request of kg_sold kg, follow FIFO in kg over
\* the store before the call
FifoKgPosting(new, branch_id, size_id, kg_sold) ==
    /\ Len(new) >= 1
    /\ SumKg(new, "kg_sold") = kg_sold
    /\ \A k \in 1..Len(new) :
           LET row == new[k]
               before == SumKg(SubSeq(new, 1, k - 1), "kg_sold")
               onhand == _batch_line_on_hand(batch_lines, sales, row.batch_id, size_id)
           IN  /\ row.batch_id \in 1..Len(batches)
               /\ Eligible(row.batch_id, branch_id, size_id)
               /\ RLt(before, kg_sold)
               /\ row.kg_sold = RMin(RSub(kg_sold, before), onhand.kg)
               /\ RLeq(row.kg_sold, onhand.kg)
               /\ \A j \in 1..(k - 1) : ~Older(row.batch_id, new[j].batch_id)
               /\ \A i \in 1..Len(batches) :
                      (Eligible(i, branch_id, size_id) /\ Older(i, row.batch_id))
                          => \E j \in 1..(k - 1) :
                                 /\ new[j].batch_id = i
                                 /\ new[j].kg_sold
                                        = _batch_line_on_hand(batch_lines, sales, i, size_id).kg

\* a request of 1 kg plus 1e-9 kg
KgJustOverOne ==
    Rat(EpsAlloc + 1, EpsAlloc)

\* C11: a create_wholesale_sale_fifo call whose kg the candidates cover never
\* raises for lack of kg, and when it succeeds its slices follow the candidates
\* oldest first, each slice = min(kg still to allocate, the candidate's on-hand
\* kg), so at most that on-hand, a newer candidate getting a slice only when
\* every older one was taken in full, the slice kg summing to kg_sold.  The sum
\* is exact up to the 1e-9 kg the allocation loop treats as nothing: from
\* candidates holding 1 kg and more, a request of 1.000000001 kg gets the
\* 1 kg slice only.
C11_WholesaleKgFifo ==
    /\ \A a \in KgWholesaleArgs :
           LET fifo == _fifo_batches_for_size(batches, batch_lines, sales,
                                              a.branch_id, a.size_id)
               r == create_wholesale_sale_fifo(batches, batch_lines, sales, a)
           IN  (fifo # <<>> /\ RLeq(a.kg_sold, SumOnHandKg(fifo)))
                   => /\ r.err = OK \/ a.pcs_counted < Len(fifo)
                      /\ r.err = OK
                             => FifoKgPosting(Posted(r), a.branch_id, a.size_id, a.kg_sold)
    /\ LET fifo == _fifo_batches_for_size(batches, batch_lines, sales, 1, 1)
           al == kg_allocations(fifo, KgJustOverOne, <<>>)
       IN  (Len(fifo) >= 2 /\ fifo[1].kg_on_hand = RInt(1))
               => /\ al.allocations = <<[b |-> fifo[1], take_kg |-> RInt(1)]>>
                  /\ al.remaining_kg = Rat(1, EpsAlloc)

\* one wholesale FIFO call has just posted three slices, the first on a batch
\* created after the batch of the second, the last a part of its batch's kg
C11_Witness ==
    /\ last = Call("create_wholesale_sale_fifo", OK, 3)
    /\ Len(sales) = 3
    /\ sales[1].batch_id > sales[2].batch_id
    /\ sales[3].batch_id \notin {sales[1].batch_id, sales[2].batch_id}
    /\ RLt(sales[3].kg_sold, batches[sales[3].batch_id].initial_kg)

\* the requests of every kg and piece count, at tolerance 0
PcsWholesaleArgs ==
    {a \in WideWholesaleArgs : a.tolerance_pcs = 0}

\* C12: in every create_wholesale_sale_fifo call that succeeds the pcs_sold
\* of the posted slices sum to pcs_counted, the last slice carrying exactly
\* the pieces the earlier slices did not get, and the returned results carry
\* the same pieces.
C12_SlicePiecesSumToCounted ==
    \A a \in PcsWholesaleArgs :
        LET r == create_wholesale_sale_fifo(batches, batch_lines, sales, a)
            new == Posted(r)
            n == Len(new)
        IN  r.err = OK
                => /\ n >= 1
                   /\ SumPcs(new, "pcs_sold") = a.pcs_counted
                   /\ new[n].pcs_sold
                          = a.pcs_counted - SumPcs(SubSeq(new, 1, n - 1), "pcs_sold")
                   /\ Len(r.res) = n
                   /\ \A k \in 1..n : r.res[k].pcs_sold = new[k].pcs_sold

\* one wholesale FIFO call has just split 4 counted pieces 3 and 1 over two
\* slices of unequal kg
C12_Witness ==
    /\ last = Call("create_wholesale_sale_fifo", OK, 2)
    /\ sales[Len(sales) - 1].pcs_sold = 3
    /\ sales[Len(sales)].pcs_sold = 1
    /\ sales[Len(sales) - 1].kg_sold # sales[Len(sales)].kg_sold

\* lo <= v <= hi made true of v: max(lo, v), then min(., hi)
Clamp(v, lo, hi) ==
    IMin(IMax(lo, v), hi)

\* C13 as claimed: every slice but the last gets round(pcs_counted * slice kg
\* / total allocated kg), clamped to at least 1 and at most the pieces left
\* less the slices still to come.
C13_ShareOfTotal ==
    \A a \in PcsWholesaleArgs :
        LET r == create_wholesale_sale_fifo(batches, batch_lines, sales, a)
            new == Posted(r)
            n == Len(new)
            total_kg == SumKg(new, "kg_sold")
        IN  r.err = OK
                => \A k \in 1..(n - 1) :
                       LET pcs_left == a.pcs_counted
                                           - SumPcs(SubSeq(new, 1, k - 1), "pcs_sold")
                       IN  new[k].pcs_sold
                               = Clamp(PyRound(RMul(RInt(a.pcs_counted),
                                                    RDiv(new[k].kg_sold, total_kg))),
                                       1, pcs_left - (n - k))

\* C13, amended: every slice but the last gets round(pieces left * slice kg /
\* kg left), the pieces and kg left being pcs_counted and the total allocated
\* kg less what the earlier slices got, clamped to at least 1 and at most the
\* pieces left less the slices still to come.
C13_ShareOfRemainder ==
    \A a \in PcsWholesaleArgs :
        LET r == create_wholesale_sale_fifo(batches, batch_lines, sales, a)
            new == Posted(r)
            n == Len(new)
            total_kg == SumKg(new, "kg_sold")
        IN  r.err = OK
                => \A k \in 1..(n - 1) :
                       LET pcs_left == a.pcs_counted
                                           - SumPcs(SubSeq(new, 1, k - 1), "pcs_sold")
                           kg_left == RSub(total_kg, SumKg(SubSeq(new, 1, k - 1), "kg_sold"))
                       IN  new[k].pcs_sold
                               = Clamp(PyRound(RMul(RDiv(new[k].kg_sold, kg_left),
                                                    RInt(pcs_left))),
                                       1, pcs_left - (n - k))

\* one wholesale FIFO call has just split 4 counted pieces 1, 2, 1 over three
\* slices of equal kg: the second slice got round(3 / 2), not round(4 / 3)
C13_Witness ==
    /\ last = Call("create_wholesale_sale_fifo", OK, 3)
    /\ Len(sales) = 3
    /\ sales[1].kg_sold = sales[2].kg_sold
    /\ sales[2].kg_sold = sales[3].kg_sold
    /\ <<sales[1].pcs_sold, sales[2].pcs_sold, sales[3].pcs_sold>> = <<1, 2, 1>>

\* the number of candidates, oldest first, whose on-hand kg cover kg_sold
BatchesUsed(fifo, kg_sold) ==
    CHOOSE m \in 1..Len(fifo) :
        /\ RLeq(kg_sold, SumOnHandKg(SubSeq(fifo, 1, m)))
        /\ \A j \in 1..(m - 1) : RLt(SumOnHandKg(SubSeq(fifo, 1, j)), kg_sold)

SpansError ==
    ValueError("This sale spans more FIFO batches than counted pieces.")

\* C14: a create_wholesale_sale_fifo call whose kg the candidates cover raises
\* the validation error and posts nothing when pcs_counted is below the number
\* of batches the kg span, and otherwise succeeds with one slice per batch
\* used, each of at least one piece.
C14_PiecesCoverBatchesUsed ==
    \A a \in PcsWholesaleArgs :
        LET fifo == _fifo_batches_for_size(batches, batch_lines, sales,
                                           a.branch_id, a.size_id)
            r == create_wholesale_sale_fifo(batches, batch_lines, sales, a)
        IN  (fifo # <<>> /\ RLeq(a.kg_sold, SumOnHandKg(fifo)))
                => LET used == BatchesUsed(fifo, a.kg_sold)
                   IN  /\ a.pcs_counted < used
                           => r.err = SpansError /\ r.sales = sales /\ r.res = <<>>
                       /\ a.pcs_counted >= used
                           => /\ r.err = OK
                              /\ Len(Posted(r)) = used
                              /\ \A k \in 1..used : Posted(r)[k].pcs_sold >= 1

\* one wholesale FIFO call has just posted two slices from two counted pieces,
\* and with one piece fewer the same kg would have been refused
C14_Witness ==
    /\ last = Call("create_wholesale_sale_fifo", OK, 2)
    /\ Len(sales) = 2
    /\ sales[1].pcs_sold + sales[2].pcs_sold = 2
    /\ create_wholesale_sale_fifo(batches, batch_lines, <<>>,
           [branch_id |-> 1, size_id |-> 1,
            kg_sold |-> RAdd(sales[1].kg_sold, sales[2].kg_sold), pcs_counted |-> 1,
            tolerance_pcs |-> 0, unit_price |-> None,
            price_basis |-> "PER_KG"]).err = SpansError

\* requests with non-positive and positive kg and pieces, and a bad basis
AnyWholesaleCall ==
    [branch_id : {1}, size_id : {1},
     kg_sold : {RInt(-1), RZero, RInt(1), RInt(3), RInt(6)},
     pcs_counted : {-1, 0, 1, 2}, tolerance_pcs : {0}, unit_price : {None},
     price_basis : {"PER_KG", "PER_TON"}]

\* C15: every create_wholesale_sale_fifo call that fails leaves the sales
\* table as it was and returns nothing; non-positive kg or pieces, no
\* candidate, kg beyond the candidates' on-hand and fewer pieces than batches
\* used each make the call fail.
C15_FailedWholesaleFifoPostsNothing ==
    \A a \in AnyWholesaleCall :
        LET fifo == _fifo_batches_for_size(batches, batch_lines, sales,
                                           a.branch_id, a.size_id)
            r == create_wholesale_sale_fifo(batches, batch_lines, sales, a)
        IN  /\ r.err # OK
                => r.sales = sales /\ r.res = <<>> /\ r.err.cls = "ValueError"
            /\ (RLeq(a.kg_sold, RZero) \/ a.pcs_counted <= 0 \/ fifo = <<>>)
                => r.err # OK
            /\ (RLt(RZero, a.kg_sold) /\ fifo # <<>>)
                => IF RLt(SumOnHandKg(fifo), a.kg_sold) THEN r.err # OK
                   ELSE a.pcs_counted < BatchesUsed(fifo, a.kg_sold) => r.err # OK

\* after a wholesale FIFO sale, with rows in the table and candidates left,
\* one request fails for lack of kg and another for lack of pieces
C15_Witness ==
    /\ last.op = "create_wholesale_sale_fifo"
    /\ sales # <<>>
    /\ \E a \in AnyWholesaleCall :
           create_wholesale_sale_fifo(batches, batch_lines, sales, a).err
               = ValueError("Not enough kg on hand across FIFO batches for this size.")
    /\ \E a \in AnyWholesaleCall :
           create_wholesale_sale_fifo(batches, batch_lines, sales, a).err = SpansError

\* requests at tolerance 0 and 1
ToleranceWholesaleArgs ==
    {a \in WideWholesaleArgs : a.pcs_counted \in {2, 4}}

\* C16: every slice a create_wholesale_sale_fifo call posts carries
\* pcs_suggested = round(the slice's kg / its batch's average kg per piece)
\* and variance_flag = 1 when the slice's own pieces differ from that by more
\* than the tolerance, else 0; the returned results carry the same.
C16_PerSliceVariance ==
    \A a \in ToleranceWholesaleArgs :
        LET r == create_wholesale_sale_fifo(batches, batch_lines, sales, a)
            new == Posted(r)
        IN  r.err = OK
                => \A k \in 1..Len(new) :
                       LET row == new[k]
                           suggested == PyRound(RDiv(row.kg_sold,
                                            batches[row.batch_id].batch_avg_kg_per_piece))
                           flag == IF IAbs(row.pcs_sold - suggested) > a.tolerance_pcs
                                       THEN 1 ELSE 0
                       IN  /\ row.pcs_suggested = Some(suggested)
                           /\ row.variance_flag = flag
                           /\ r.res[k].pcs_suggested = Some(suggested)
                           /\ r.res[k].variance_flag = flag

\* one wholesale FIFO call has just posted two slices of one piece each, the
\* first flagged (3 suggested), the second not (1 suggested)
C16_Witness ==
    /\ last = Call("create_wholesale_sale_fifo", OK, 2)
    /\ sales[Len(sales) - 1].variance_flag = 1
    /\ sales[Len(sales) - 1].pcs_suggested = Some(3)
    /\ sales[Len(sales)].variance_flag = 0
    /\ sales[Len(sales)].pcs_suggested = Some(1)
    /\ sales[Len(sales)].pcs_sold = 1

-----------------------------------------------------------------------------
(* Direct sale writers, over Spec.                                         *)

\* one batch of 100 pieces and 50 kg: 0.5 kg per piece
HalfKgStock ==
    create_batches_from_purchase(<<>>, <<>>, 1, 1, <<PLine(1, 100, 50, PriceIn)>>)

\* 25 kg sold out of HalfKgStock
HalfKgSale(pcs_counted, tolerance_pcs) ==
    create_wholesale_sale(HalfKgStock.batches, <<>>,
        [branch_id |-> 1, batch_id |-> 1, size_id |-> Some(1), kg_sold |-> RInt(25),
         pcs_counted |-> pcs_counted, tolerance_pcs |-> tolerance_pcs,
         unit_price |-> None, price_basis |-> "PER_KG", total_price |-> None])

AnyWholesaleArgs ==
    [branch_id : {1}, batch_id : 1..MaxBatches, size_id : {Some(1)},
     kg_sold : {Rat(1, 2), RInt(1), RInt(2)}, pcs_counted : 1..3,
     tolerance_pcs : 0..2, unit_price : {None}, price_basis : {"PER_KG"},
     total_price : {None}]

\* C17: a create_wholesale_sale call on a batch that exists succeeds and
\* appends one row: mode WHOLESALE_KG, pcs_sold the counted pieces, kg_sold as
\* given, pcs_suggested = round(kg_sold / the batch's average kg per piece),
\* variance_flag 1 exactly when counted and suggested differ by more than the
\* tolerance.  25 kg at 0.5 kg per piece suggest 50 pieces: 50 counted are not
\* flagged, 45 counted at tolerance 2 are.
C17_WholesaleRow ==
    /\ HalfKgSale(50, 2).err = OK
    /\ HalfKgSale(50, 2).sales[1].pcs_suggested = Some(50)
    /\ HalfKgSale(50, 2).sales[1].variance_flag = 0
    /\ HalfKgSale(50, 0).sales[1].variance_flag = 0
    /\ HalfKgSale(45, 2).sales[1].pcs_suggested = Some(50)
    /\ HalfKgSale(45, 2).sales[1].variance_flag = 1
    /\ \A a \in AnyWholesaleArgs :
           LET r == create_wholesale_sale(batches, sales, a)
           IN  a.batch_id \in 1..Len(batches)
                   => LET suggested == PyRound(RDiv(a.kg_sold,
                                           batches[a.batch_id].batch_avg_kg_per_piece))
                          row == r.sales[Len(r.sales)]
                      IN  /\ r.err = OK
                          /\ Len(r.sales) = Len(sales) + 1
                          /\ SubSeq(r.sales, 1, Len(sales)) = sales
                          /\ row.mode = "WHOLESALE_KG"
                          /\ row.batch_id = a.batch_id
                          /\ row.pcs_sold = a.pcs_counted
                          /\ row.kg_sold = a.kg_sold
                          /\ row.pcs_suggested = Some(suggested)
                          /\ row.variance_flag = 1
                                 <=> IAbs(a.pcs_counted - suggested) > a.tolerance_pcs
                          /\ row.variance_flag \in {0, 1}

\* a wholesale sale has just posted its row: 1 piece counted for 1 kg of a
\* batch of 0.5 kg per piece, 2 suggested, flagged at tolerance 0
C17_Witness ==
    /\ last = Call("create_wholesale_sale", OK, 1)
    /\ sales[Len(sales)].mode = "WHOLESALE_KG"
    /\ sales[Len(sales)].pcs_sold = 1
    /\ sales[Len(sales)].pcs_suggested = Some(2)
    /\ sales[Len(sales)].variance_flag = 1

AnyRetailArgs ==
    [branch_id : {1}, batch_id : 1..MaxBatches, size_id : {Some(1), Some(2)},
     pcs_sold : 1..3, unit_price : {None}, price_basis : {"PER_KG"},
     total_price : {None}]

\* C18: a create_retail_sale call on a batch that exists succeeds and appends
\* one row: mode RETAIL_PCS, pcs_sold as given, kg_sold = pcs_sold times the
\* batch's batch_avg_kg_per_piece, variance_flag 0 and no pcs_suggested.
C18_RetailRow ==
    \A a \in AnyRetailArgs :
        LET r == create_retail_sale(batches, sales, a)
        IN  a.batch_id \in 1..Len(batches)
                => LET row == r.sales[Len(r.sales)]
                   IN  /\ r.err = OK
                       /\ Len(r.sales) = Len(sales) + 1
                       /\ SubSeq(r.sales, 1, Len(sales)) = sales
                       /\ row.mode = "RETAIL_PCS"
                       /\ row.batch_id = a.batch_id
                       /\ row.size_id = a.size_id
                       /\ row.pcs_sold = a.pcs_sold
                       /\ row.kg_sold = RMul(RInt(a.pcs_sold),
                                             batches[a.batch_id].batch_avg_kg_per_piece)
                       /\ row.variance_flag = 0
                       /\ row.pcs_suggested = None

\* a retail sale has just posted one piece of a size whose line averages 1 kg
\* per piece in a batch averaging 1.5: the row carries 1.5 kg
C18_Witness ==
    /\ last = Call("create_retail_sale", OK, 1)
    /\ sales[Len(sales)].mode = "RETAIL_PCS"
    /\ sales[Len(sales)].pcs_sold = 1
    /\ sales[Len(sales)].kg_sold = Rat(3, 2)
    /\ \E l \in 1..Len(batch_lines) :
           /\ batch_lines[l].batch_id = sales[Len(sales)].batch_id
           /\ Some(batch_lines[l].size_id) = sales[Len(sales)].size_id
           /\ batch_lines[l].avg_kg_per_piece = RInt(1)

NonPositiveRetailArgs ==
    [branch_id : {1}, batch_id : 1..MaxBatches, size_id : {Some(1)},
     pcs_sold : {-1, 0}, unit_price : {None}, price_basis : {"PER_KG"},
     total_price : {None}]

NonPositiveWholesaleArgs ==
    {a \in [branch_id : {1}, batch_id : 1..MaxBatches, size_id : {Some(1)},
            kg_sold : {RInt(-1), RZero, RInt(1)}, pcs_counted : {-1, 0, 1},
            tolerance_pcs : {0}, unit_price : {None}, price_basis : {"PER_KG"},
            total_price : {None}] :
        RLeq(a.kg_sold, RZero) \/ a.pcs_counted <= 0}

\* C19: create_retail_sale with pcs_sold <= 0, and create_wholesale_sale with
\* kg_sold <= 0 or pcs_counted <= 0, raise the validation error and leave the
\* sales table as it was, whether or not the batch exists.
C19_NonPositiveRefused ==
    /\ \A a \in NonPositiveRetailArgs :
           LET r == create_retail_sale(batches, sales, a)
           IN  /\ r.err = ValueError("Pieces sold must be > 0.")
               /\ r.sales = sales
               /\ r.res = <<>>
    /\ \A a \in NonPositiveWholesaleArgs :
           LET r == create_wholesale_sale(batches, sales, a)
           IN  /\ r.err = IF RLeq(a.kg_sold, RZero) THEN ValueError("Kg sold must be > 0.")
                          ELSE ValueError("Counted pieces must be > 0.")
               /\ r.sales = sales
               /\ r.res = <<>>

\* after a retail sale on batch 1, the same call with 0 pieces, and a
\* wholesale call on it with 0 kg, are refused
C19_Witness ==
    /\ last = Call("create_retail_sale", OK, 1)
    /\ sales[Len(sales)].batch_id = 1
    /\ \E a \in NonPositiveRetailArgs :
           /\ a.batch_id = 1 /\ a.pcs_sold = 0
           /\ create_retail_sale(batches, sales, a).err.cls = "ValueError"
    /\ \E a \in NonPositiveWholesaleArgs :
           /\ a.batch_id = 1 /\ a.kg_sold = RZero
           /\ create_wholesale_sale(batches, sales, a).err.cls = "ValueError"

\* C20 as claimed: create_retail_sale and create_wholesale_sale on a batch
\* that does not exist raise NotFoundError, a class other than the validation
\* error's, and leave the sales table as it was.
C20_NotFoundIsDistinct ==
    /\ \A a \in RetailArgs :
           LET r == create_retail_sale(batches, sales, a)
           IN  a.batch_id \notin 1..Len(batches)
                   => /\ r.err.cls = "NotFoundError"
                      /\ r.err.cls # ValueError("Pieces sold must be > 0.").cls
                      /\ r.sales = sales
    /\ \A a \in WholesaleArgs :
           LET r == create_wholesale_sale(batches, sales, a)
           IN  a.batch_id \notin 1..Len(batches)
                   => /\ r.err.cls = "NotFoundError"
                      /\ r.err.cls # ValueError("Kg sold must be > 0.").cls
                      /\ r.sales = sales

-----------------------------------------------------------------------------
(* Closure arithmetic and the auto-zero step, over Spec.                   *)

\* one batch of 100 pieces and 100 kg, one wholesale sale of them at a given
\* kg, and a write-off of the kg left
HundredKgStock ==
    create_batch(<<>>, <<>>, <<"RCPT", "001">>, 1, 1, PriceIn, <<Line(1, 100, 100)>>)

HundredKgSold(kg_sold) ==
    create_wholesale_sale(HundredKgStock.batches, <<>>,
        [branch_id |-> 1, batch_id |-> 1, size_id |-> Some(1), kg_sold |-> kg_sold,
         pcs_counted |-> 100, tolerance_pcs |-> 0, unit_price |-> None,
         price_basis |-> "PER_KG", total_price |-> None]).sales

HundredKgClose ==
    close_batch(HundredKgStock.batches, HundredKgSold(RInt(92)),
                post_adjustment(HundredKgStock.batches, <<>>, 1, "WRITE_OFF", 0, RInt(-8)),
                <<>>, 1, Rat(1, 4))

SoldKg(b) ==
    SumKg(SelectSeq(sales, LAMBDA row : row.batch_id = b), "kg_sold")

\* C21: every close_batch call that succeeds returns, and stores in its
\* batch_closures row, loss_kg = initial_kg minus the kg_sold of the batch's
\* sales, of either sign, and loss_pct = 100 * loss_kg / initial_kg; 100 kg
\* of which 92 were sold close with loss_kg 8 and loss_pct 8.
C21_ClosureLoss ==
    /\ HundredKgClose.err = OK
    /\ HundredKgClose.res = <<[loss_kg |-> RInt(8), loss_pct |-> RInt(8)]>>
    /\ \A b \in 1..Len(batches), tol \in CloseTolerances :
           LET r == close_batch(batches, sales, inventory_adjustments, batch_closures,
                                b, tol)
               loss_kg == RSub(batches[b].initial_kg, SoldKg(b))
               loss_pct == RDiv(RMul(RInt(100), loss_kg), batches[b].initial_kg)
               row == r.batch_closures[Len(r.batch_closures)]
           IN  r.err = OK
                   => /\ r.res = <<[loss_kg |-> loss_kg, loss_pct |-> loss_pct]>>
                      /\ Len(r.batch_closures) = Len(batch_closures) + 1
                      /\ row.batch_id = b
                      /\ row.loss_kg = loss_kg
                      /\ row.loss_pct = loss_pct

\* close_batch has just closed a 1 kg batch of which 2 kg were sold: the
\* closure row carries loss_kg -1 and loss_pct -100
C21_Witness ==
    /\ last = Call("close_batch", OK, 0)
    /\ batch_closures[Len(batch_closures)].loss_kg = RInt(-1)
    /\ batch_closures[Len(batch_closures)].loss_pct = RInt(-100)

\* a batch of 10 pieces and 1 kg sold down to no piece and 0.1 kg
TenthKgStock ==
    create_batch(<<>>, <<>>, <<"RCPT", "001">>, 1, 1, PriceIn, <<Line(1, 10, 1)>>)

TenthKgClose(tol) ==
    close_batch(TenthKgStock.batches,
                create_wholesale_sale(TenthKgStock.batches, <<>>,
                    [branch_id |-> 1, batch_id |-> 1, size_id |-> Some(1),
                     kg_sold |-> Rat(9, 10), pcs_counted |-> 10, tolerance_pcs |-> 0,
                     unit_price |-> None, price_basis |-> "PER_KG",
                     total_price |-> None]).sales,
                <<>>, <<>>, 1, tol)

AutoZeroTolerances ==
    CloseTolerances \cup {Rat(1, 20), RInt(2)}

\* C22: close_batch on an OPEN batch with no piece on hand and kg on hand
\* other than 0 but within auto_zero_tolerance_kg appends one adjustment
\* (CLOSE_TO_ZERO, pcs_delta 0, kg_delta = minus the kg on hand) and closes
\* the batch; with the kg beyond the tolerance, or with pieces on hand other
\* than 0, it raises and changes no row.  0.1 kg closes at tolerance 0.25
\* with kg_delta -0.1 and is refused at tolerance 0.05.
C22_AutoZero ==
    /\ TenthKgClose(Rat(1, 4)).err = OK
    /\ TenthKgClose(Rat(1, 4)).inventory_adjustments
           = <<AdjustmentRow(1, "CLOSE_TO_ZERO", 0, Rat(-1, 10))>>
    /\ TenthKgClose(Rat(1, 20)).err.cls = "ValueError"
    /\ TenthKgClose(Rat(1, 20)).inventory_adjustments = <<>>
    /\ \A b \in 1..Len(batches), tol \in AutoZeroTolerances :
           LET r == close_batch(batches, sales, inventory_adjustments, batch_closures,
                                b, tol)
               oh == batch_on_hand(batches, sales, inventory_adjustments, b)
           IN  batches[b].status = "OPEN"
                   => /\ (oh.pcs = 0 /\ oh.kg # RZero /\ RLeq(RAbs(oh.kg), tol))
                          => /\ r.err = OK
                             /\ r.inventory_adjustments
                                    = Append(inventory_adjustments,
                                             AdjustmentRow(b, "CLOSE_TO_ZERO", 0,
                                                           RSub(RZero, oh.kg)))
                             /\ r.batches[b].status = "CLOSED"
                      /\ (oh.pcs # 0 \/ RLt(tol, RAbs(oh.kg)))
                          => /\ r.err.cls = "ValueError"
                             /\ NoRowChanged(r)

\* close_batch has just closed a batch after writing off the 1 kg it had on
\* hand with no piece, while another batch holds pieces and cannot be closed
C22_Witness ==
    /\ last = Call("close_batch", OK, 0)
    /\ inventory_adjustments # <<>>
    /\ inventory_adjustments[Len(inventory_adjustments)].reason = "CLOSE_TO_ZERO"
    /\ inventory_adjustments[Len(inventory_adjustments)].kg_delta = RInt(-1)
    /\ \E b \in 1..Len(batches) :
           /\ batches[b].status = "OPEN"
           /\ batch_on_hand(batches, sales, inventory_adjustments, b).pcs # 0

-----------------------------------------------------------------------------
(* FIFO candidates and size-level on-hand, over Spec.                      *)

\* the batches that carry the size and pass the filter of the candidate list
Qualifying(branch_id, size_id) ==
    {i \in 1..Len(batches) :
        /\ Eligible(i, branch_id, size_id)
        /\ \E k \in 1..Len(batch_lines) :
               batch_lines[k].batch_id = i /\ batch_lines[k].size_id = size_id}

\* C23 as claimed: the candidate list of a branch and size holds exactly the
\* OPEN batches of the branch that carry the size with size-level on-hand
\* pieces and kg both above 0, each once, by ascending receipt_date and then
\* ascending batch id.
C23_CandidatesExact ==
    \A branch_id \in Branches, size_id \in Sizes :
        LET fifo == _fifo_batches_for_size(batches, batch_lines, sales, branch_id, size_id)
        IN  /\ {fifo[k].batch_id : k \in 1..Len(fifo)} = Qualifying(branch_id, size_id)
            /\ Len(fifo) = Cardinality(Qualifying(branch_id, size_id))
            /\ \A k \in 1..(Len(fifo) - 1) : Older(fifo[k].batch_id, fifo[k + 1].batch_id)

LinesOf(batch_id, size_id) ==
    SelectSeq(batch_lines, LAMBDA l : l.batch_id = batch_id /\ l.size_id = size_id)

SalesOfSize(batch_id, size_id) ==
    SelectSeq(sales, LAMBDA row : row.batch_id = batch_id /\ row.size_id = Some(size_id))

LineOnHandNow(batch_id, size_id) ==
    _batch_line_on_hand(batch_lines, sales, batch_id, size_id)

\* C24: the size-level on-hand of a batch and size is the pieces and kg of
\* the batch's line of that size (the first one stored) less the pcs_sold and
\* kg_sold of the sales with that batch and that size, and 0 pieces and 0 kg
\* when the batch has no such line; a step that adds inventory adjustments
\* and no sale leaves it as it was for every batch and size.
C24_LineOnHand ==
    /\ [](\A b \in 1..(MaxBatches + 1), size_id \in Sizes :
              LineOnHandNow(b, size_id)
                  = IF LinesOf(b, size_id) = <<>> THEN OnHand(0, RZero)
                    ELSE OnHand(LinesOf(b, size_id)[1].pieces
                                    - SumPcs(SalesOfSize(b, size_id), "pcs_sold"),
                                RSub(LinesOf(b, size_id)[1].kg,
                                     SumKg(SalesOfSize(b, size_id), "kg_sold"))))
    /\ [][(inventory_adjustments' # inventory_adjustments /\ sales' = sales)
              => \A b \in 1..(MaxBatches + 1), size_id \in Sizes :
                     _batch_line_on_hand(batch_lines', sales', b, size_id)
                         = LineOnHandNow(b, size_id)]_vars

\* an adjustment has just been posted on a batch with a sale of size 1: the
\* batch-level on-hand has moved away from the size-level one
C24_Witness ==
    /\ last.op = "post_adjustment"
    /\ \E b \in 1..Len(batches) :
           /\ \E k \in 1..Len(inventory_adjustments) : inventory_adjustments[k].batch_id = b
           /\ SalesOfSize(b, 1) # <<>>
           /\ LinesOf(b, 1) # <<>>
           /\ LineOnHandNow(b, 1).pcs
                  # batch_on_hand(batches, sales, inventory_adjustments, b).pcs
                        - IF LinesOf(b, 2) = <<>> THEN 0 ELSE LinesOf(b, 2)[1].pieces

-----------------------------------------------------------------------------
(* Batch creation, over Spec.                                              *)

AnyCodes == {<<>>, <<"RCPT", "002">>}

AnyPrices == {None, Some(RZero), Some(RInt(-1)), PriceIn}

\* line lists with no line, no piece, no kg, pieces cancelling out, and a
\* good line
AnyLineLists ==
    {<<>>, <<Line(1, 0, 1)>>, <<Line(1, 1, 0)>>, <<Line(1, 2, 1), Line(2, -2, 1)>>,
     <<Line(1, 1, 1), Line(2, 1, -1)>>, <<Line(1, 1, 1)>>}

RefusedBatch(code, price, lns) ==
    \/ code = <<>>
    \/ lns = <<>>
    \/ price = None
    \/ RLeq(price[1], RZero)
    \/ SumPcs(lns, "pieces") <= 0
    \/ RLeq(SumKg(lns, "kg"), RZero)

\* C25: create_batch raises the validation error and inserts no batch row
\* and no line row when the code is empty, the line list is empty, the buy
\* price is not a number or is <= 0, the pieces of the lines total <= 0 or
\* their kg total <= 0.
C25_CreateBatchValidation ==
    \A code \in AnyCodes, price \in AnyPrices, lns \in AnyLineLists :
        LET r == create_batch(batches, batch_lines, code, 1, 1, price, lns)
        IN  IF RefusedBatch(code, price, lns)
                THEN /\ r.err.cls = "ValueError"
                     /\ r.batches = batches
                     /\ r.batch_lines = batch_lines
            ELSE r.err = OK /\ Len(r.batches) = Len(batches) + 1

\* create_batch has created a batch, and its checks refuse a second call for
\* each of its reasons
C25_Witness ==
    /\ last = Call("create_batch", OK, 0)
    /\ batches # <<>>
    /\ {create_batch(batches, batch_lines, code, 1, 1, price, lns).err.msg :
            code \in AnyCodes, price \in AnyPrices, lns \in AnyLineLists}
           = {"", "Batch code is required.", "At least one size line is required.",
              "Buy price per kg must be a number.", "Buy price per kg must be > 0.",
              "Total pieces must be > 0.", "Total kg must be > 0."}

\* purchases mixing priced lines with lines of no piece or no kg
AnyPurchaseLists ==
    PurchaseLineLists
        \cup {<<PLine(1, 1, 0, None)>>,
              <<PLine(1, 1, 1, PriceIn), PLine(2, 0, 0, None), PLine(2, 2, 1, PriceIn)>>,
              <<PLine(1, -1, 1, PriceIn), PLine(2, 1, -1, PriceIn)>>}

GoodLines(lns) ==
    SelectSeq(lns, LAMBDA l : l.pieces > 0 /\ RLt(RZero, l.kg))

\* C26: a create_batches_from_purchase call that succeeds appends one OPEN
\* batch with one line for each input line with pieces > 0 and kg > 0, in
\* input order, returns their ids in that order and creates nothing for the
\* other lines; a call none of whose lines qualifies raises the validation
\* error and creates nothing.
C26_PurchaseBatches ==
    \A date \in Dates, lns \in AnyPurchaseLists :
        LET r == create_batches_from_purchase(batches, batch_lines, date, 1, lns)
            good == GoodLines(lns)
        IN  /\ r.err = OK
                => /\ good # <<>>
                   /\ r.ids = [k \in 1..Len(good) |-> Len(batches) + k]
                   /\ Len(r.batches) = Len(batches) + Len(good)
                   /\ SubSeq(r.batches, 1, Len(batches)) = batches
                   /\ r.batch_lines
                          = batch_lines
                                \o [k \in 1..Len(good) |->
                                       LineRow(Len(batches) + k,
                                               BatchLineInput(good[k].size_id, good[k].pieces,
                                                              good[k].kg, None))]
                   /\ \A k \in 1..Len(good) :
                          LET b == r.batches[Len(batches) + k]
                          IN  /\ b.status = "OPEN"
                              /\ b.branch_id = 1
                              /\ b.receipt_date = date
                              /\ b.initial_pieces = good[k].pieces
                              /\ b.initial_kg = good[k].kg
                              /\ Some(b.buy_price_per_kg) = good[k].buy_price_per_kg
            /\ good = <<>>
                => /\ r.err.cls = "ValueError"
                   /\ r.batches = batches
                   /\ r.batch_lines = batch_lines

\* a purchase of a line without pieces and a line of 1 piece has just
\* created one batch, for the second line
C26_Witness ==
    /\ last = Call("create_batches_from_purchase", OK, 0)
    /\ Len(batches) = 1
    /\ batches[1].initial_pieces = 1
    /\ batch_lines = <<LineRow(1, Line(1, 1, 1))>>

\* the size segment of the documented code: the size's code without its
\* underscore
CompactSizeCode(size_id) ==
    <<"SIZE2", "SIZE3">>[size_id]

\* C27 as claimed: the code generated for a branch, size and date is
\* {BRANCH_CODE}-{SIZE_CODE}-{YYYYMMDD}-{SEQ:03} with SIZE2 for the size
\* SIZE_2 (SIZE3 for SIZE_3) and SEQ = 1 + the number of existing batch codes
\* that start with that prefix.
C27_GeneratedCode ==
    \A branch_id \in Branches, size_id \in Sizes, date \in Dates :
        LET prefix == <<BranchCode(branch_id), CompactSizeCode(size_id), Ymd(date)>>
            n == Cardinality({i \in 1..Len(batches) :
                                 HasPrefix(batches[i].batch_code, prefix)})
        IN  _generate_batch_code(batches, branch_id, size_id, date)
                = prefix \o <<Seq03(n + 1)>>

\* C28 as claimed: no batch holds two batch_lines rows of one size.
C28_OneLinePerSize ==
    \A b \in 1..Len(batches), size_id \in Sizes :
        Cardinality({k \in 1..Len(batch_lines) :
                        batch_lines[k].batch_id = b /\ batch_lines[k].size_id = size_id}) <= 1

\* line lists whose totals pass the checks of create_batch
AcceptedLineLists ==
    BatchLineLists \cup {<<Line(1, 2, 1), Line(2, 0, 1)>>, <<Line(1, 2, 1), Line(2, 1, 0)>>}

\* C29 as claimed: every stored batch line has avg_kg_per_piece > 0, and so
\* has every line of a batch create_batch accepts.
C29_LineAvgPositive ==
    /\ \A k \in 1..Len(batch_lines) : RLt(RZero, batch_lines[k].avg_kg_per_piece)
    /\ \A lns \in AcceptedLineLists :
           LET r == create_batch(batches, batch_lines, <<"RCPT", "002">>, 1, 1, PriceIn, lns)
           IN  r.err = OK
                   => \A k \in 1..Len(r.batch_lines) :
                          RLt(RZero, r.batch_lines[k].avg_kg_per_piece)

IsPrefix(old, new) ==
    Len(old) <= Len(new) /\ SubSeq(new, 1, Len(old)) = old

\* C30: every step of a core operation leaves each sales row and each
\* inventory_adjustments row it found in place and unchanged, adding rows
\* after them only.
C30_AppendOnly ==
    [][IsPrefix(sales, sales') /\ IsPrefix(inventory_adjustments, inventory_adjustments')]_vars

\* close_batch has just added its adjustment and closed a batch, after a
\* retail and a wholesale sale were posted
C30_Witness ==
    /\ last = Call("close_batch", OK, 0)
    /\ Len(sales) >= 2
    /\ \E k \in 1..Len(sales) : sales[k].mode = "RETAIL_PCS"
    /\ \E k \in 1..Len(sales) : sales[k].mode = "WHOLESALE_KG"
    /\ inventory_adjustments # <<>>

-----------------------------------------------------------------------------
(* Prices and stock levels under the sale writers, over Spec.              *)

AnyUnitPrices == {None, Some(RZero), Some(Rat(5, 4))}

AnyTotals == {None, Some(RZero), Some(RInt(-1)), Some(RInt(7))}

AnyBases == {"", "PER_KG", "PER_PIECE"}

PricedRetailArgs ==
    [branch_id : {1}, batch_id : {1}, size_id : {Some(1)}, pcs_sold : {3},
     unit_price : AnyUnitPrices, price_basis : AnyBases, total_price : AnyTotals]

PricedWholesaleArgs ==
    [branch_id : {1}, batch_id : {1}, size_id : {Some(1)}, kg_sold : {Rat(1, 2)},
     pcs_counted : {3}, tolerance_pcs : {0}, unit_price : AnyUnitPrices,
     price_basis : AnyBases, total_price : AnyTotals]

\* the total a sale row is to carry
ExpectedTotal(total_price, unit_price, price_basis, pcs, kg) ==
    IF total_price # None /\ RLt(RZero, total_price[1]) THEN total_price
    ELSE IF unit_price # None /\ RLt(RZero, unit_price[1])
        THEN LET amount == IF price_basis = "PER_PIECE" THEN RMul(unit_price[1], RInt(pcs))
                           ELSE RMul(unit_price[1], kg)
             IN  Some(Rat(PyRound(RMul(amount, RInt(100))), 100))
    ELSE None

\* C31: the row either sale writer posts carries as total_price the caller's
\* total when that is > 0; otherwise unit_price times the pieces (basis
\* PER_PIECE; the counted pieces for wholesale) or times kg_sold (any other
\* basis), rounded to 2 decimals, when unit_price > 0; otherwise none.
C31_TotalPrice ==
    /\ \A a \in PricedRetailArgs :
           LET r == create_retail_sale(batches, sales, a)
               row == r.sales[Len(r.sales)]
           IN  r.err = OK
                   => row.total_price
                          = ExpectedTotal(a.total_price, a.unit_price, a.price_basis,
                                          a.pcs_sold, row.kg_sold)
    /\ \A a \in PricedWholesaleArgs :
           LET r == create_wholesale_sale(batches, sales, a)
               row == r.sales[Len(r.sales)]
           IN  r.err = OK
                   => row.total_price
                          = ExpectedTotal(a.total_price, a.unit_price, a.price_basis,
                                          a.pcs_counted, a.kg_sold)

\* a retail sale has just posted a row without a total; the same sale of 3
\* pieces at 1.25 per kg would carry 1.88 on a batch of 0.5 kg per piece
C31_Witness ==
    /\ last = Call("create_retail_sale", OK, 1)
    /\ sales[Len(sales)].total_price = None
    /\ sales[Len(sales)].batch_id = 1
    /\ \E a \in PricedRetailArgs :
           /\ a.unit_price = Some(Rat(5, 4))
           /\ a.price_basis = "PER_KG"
           /\ a.total_price = Some(RZero)
           /\ LET r == create_retail_sale(batches, sales, a)
              IN  r.sales[Len(r.sales)].total_price = Some(Rat(47, 25))

\* the rows a step appended to the sales table
NewSales ==
    SubSeq(sales', Len(sales) + 1, Len(sales'))

\* a step in which create_retail_sale or create_wholesale_sale posted a row
DirectSaleStep ==
    /\ sales' # sales
    /\ last'.op \in {"create_retail_sale", "create_wholesale_sale"}

\* C32: while no adjustment exists, a row posted by create_retail_sale or
\* create_wholesale_sale takes no more pieces and no more kg than batch_on_hand
\* reported for its batch before the call, so no batch's on-hand goes below 0.
C32_DirectSaleWithinStock ==
    [][(DirectSaleStep /\ inventory_adjustments = <<>>)
           => \A i \in 1..Len(NewSales) :
                  LET row == NewSales[i]
                      held == batch_on_hand(batches, sales, inventory_adjustments,
                                            row.batch_id)
                  IN  /\ row.pcs_sold <= held.pcs
                      /\ RLeq(row.kg_sold, held.kg)]_vars

\* C33: after any sequence of FIFO sales on batches of one size line each, the
\* size-level on-hand of every batch is >= 0 in pieces and in kg.
C33_LineOnHandNonNegative ==
    \A b \in 1..Len(batches) :
        \A s \in Sizes :
            LET held == _batch_line_on_hand(batch_lines, sales, b, s)
            IN  held.pcs >= 0 /\ RLeq(RZero, held.kg)

\* C34: no sale row is posted against a CLOSED batch: every row a step appends
\* to the sales table names a batch that is not CLOSED before the step.
C34_NoSaleOnClosedBatch ==
    [][\A i \in 1..Len(NewSales) :
           LET row == NewSales[i]
           IN  row.batch_id \in 1..Len(batches)
                   => batches[row.batch_id].status # "CLOSED"]_vars

\* a step in which a FIFO wrapper posted rows
FifoSaleStep ==
    /\ sales' # sales
    /\ last'.op \in {"create_retail_sale_fifo", "create_wholesale_sale_fifo"}

\* the rows a step appended for one batch
NewSalesOf(b) ==
    SelectSeq(NewSales, LAMBDA r : r.batch_id = b)

\* C35: a FIFO call takes from a batch no more than batch_on_hand reported for
\* it before the call: pieces for the retail wrapper, kg for the wholesale
\* wrapper, adjustments and size-less sales included.
C35_FifoWithinBatchOnHand ==
    [][FifoSaleStep
           => \A b \in 1..Len(batches) :
                  LET held == batch_on_hand(batches, sales, inventory_adjustments, b)
                  IN  IF last'.op = "create_retail_sale_fifo"
                          THEN SumPcs(NewSalesOf(b), "pcs_sold") <= held.pcs
                      ELSE RLeq(SumKg(NewSalesOf(b), "kg_sold"), held.kg)]_vars

\* C36: every row a FIFO call posts names an OPEN batch of the row's branch
\* that carries a line of the row's size, all rows of the call carry one branch
\* and one size, and the call posts at most one row per batch.
C36_FifoRowsWellFormed ==
    [][FifoSaleStep
           => /\ \A i \in 1..Len(NewSales) :
                     LET row == NewSales[i]
                     IN  /\ row.batch_id \in 1..Len(batches)
                         /\ batches[row.batch_id].status = "OPEN"
                         /\ batches[row.batch_id].branch_id = row.branch_id
                         /\ row.size_id # None
                         /\ \E k \in 1..Len(batch_lines) :
                                /\ batch_lines[k].batch_id = row.batch_id
                                /\ Some(batch_lines[k].size_id) = row.size_id
                         /\ row.size_id = NewSales[1].size_id
                         /\ row.branch_id = NewSales[1].branch_id
              /\ \A i, j \in 1..Len(NewSales) :
                     NewSales[i].batch_id = NewSales[j].batch_id => i = j]_vars

-----------------------------------------------------------------------------
(* Weight and loss bookkeeping of a batch, over Spec.                      *)

\* the batch's history holds retail sales only and no adjustment
RetailOnly(b) ==
    /\ \A i \in 1..Len(sales) : sales[i].batch_id = b => sales[i].mode = "RETAIL_PCS"
    /\ \A i \in 1..Len(inventory_adjustments) : inventory_adjustments[i].batch_id # b

\* C37: for a batch with retail sales only and no adjustment, on-hand kg times
\* initial_pieces equals on-hand pieces times initial_kg; once all its pieces
\* are sold its on-hand kg is 0 and close_batch succeeds with loss_kg 0.
C37_RetailKeepsProportion ==
    \A b \in 1..Len(batches) :
        RetailOnly(b)
            => LET held == batch_on_hand(batches, sales, inventory_adjustments, b)
               IN  /\ RMul(held.kg, RInt(batches[b].initial_pieces))
                          = RMul(RInt(held.pcs), batches[b].initial_kg)
                   /\ (held.pcs = 0 /\ batches[b].status = "OPEN")
                          => /\ held.kg = RZero
                             /\ \A tol \in CloseTolerances :
                                    LET r == close_batch(batches, sales,
                                                         inventory_adjustments,
                                                         batch_closures, b, tol)
                                    IN  /\ r.err = OK
                                        /\ r.res[1].loss_kg = RZero

\* a batch of 0.5 kg per piece was sold out by two retail sales and then
\* closed with no loss and no adjustment
C37_Witness ==
    /\ last = Call("close_batch", OK, 0)
    /\ inventory_adjustments = <<>>
    /\ \E b \in 1..Len(batches) :
           /\ RetailOnly(b)
           /\ batches[b].status = "CLOSED"
           /\ batches[b].batch_avg_kg_per_piece = Rat(1, 2)
           /\ Cardinality({i \in 1..Len(sales) : sales[i].batch_id = b}) = 2
           /\ \E k \in 1..Len(batch_closures) :
                  /\ batch_closures[k].batch_id = b
                  /\ batch_closures[k].loss_kg = RZero

\* the sum of kg_delta over the adjustments of batch b in the table adj
AdjustedKg(adj, b) ==
    SumKg(SelectSeq(adj, LAMBDA r : r.batch_id = b), "kg_delta")

\* C38: whenever close_batch succeeds, the loss_kg it returns and records is
\* minus the sum of kg_delta over all adjustments of the batch, the
\* CLOSE_TO_ZERO row of the call included, within 1e-6.
C38_LossIsAdjustedKg ==
    \A b \in 1..Len(batches), tol \in CloseTolerances :
        LET r == close_batch(batches, sales, inventory_adjustments, batch_closures,
                             b, tol)
        IN  r.err = OK
                => /\ RLeqInv(RAbs(RAdd(r.res[1].loss_kg,
                                        AdjustedKg(r.inventory_adjustments, b))),
                              EpsClosed)
                   /\ r.batch_closures[Len(r.batch_closures)].loss_kg
                          = r.res[1].loss_kg

\* a batch was closed with a loss of 1 kg that its adjustments account for,
\* while it had taken sales
C38_Witness ==
    /\ last = Call("close_batch", OK, 0)
    /\ \E k \in 1..Len(batch_closures) :
           LET b == batch_closures[k].batch_id
           IN  /\ batch_closures[k].loss_kg = RInt(1)
               /\ AdjustedKg(inventory_adjustments, b) = RInt(-1)
               /\ \E i \in 1..Len(sales) : sales[i].batch_id = b

-----------------------------------------------------------------------------
(* Batch codes of stock-in, over Spec.                                     *)

\* codes a caller may hand to create_batch: a receipt code, and a code of the
\* generated shape carrying sequence 002 (MAIBRA-SIZE_2-20260218-002)
ChosenCodes ==
    CallerCodes \cup {<<BranchCode(1), SizeCode(1), Ymd(1), Seq03(2)>>}

\* C39: after create_batch calls with caller-chosen codes and purchases, the
\* code _generate_batch_code produces is none already in batches, so a
\* purchase never fails on the uniqueness of batch_code.
C39_GeneratedCodeIsFresh ==
    \A code \in ChosenCodes :
        LET r == create_batch(batches, batch_lines, code, 1, 1, PriceIn,
                              <<Line(1, 1, 1)>>)
        IN  \A date \in Dates, s \in Sizes :
                /\ \A i \in 1..Len(r.batches) :
                       r.batches[i].batch_code
                           # _generate_batch_code(r.batches, 1, s, date)
                /\ create_batches_from_purchase(r.batches, r.batch_lines, date, 1,
                       <<PLine(s, 1, 1, PriceIn)>>).err.cls # "IntegrityError"

-----------------------------------------------------------------------------
(* The FIFO wrappers against the direct writers, over Spec.                *)

OnePrices == {None, Some(Rat(5, 4))}

OneRetailFifoArgs ==
    [branch_id : {1}, size_id : Sizes, pcs_sold : 1..MaxPcs,
     unit_price : OnePrices, price_basis : {"PER_KG", "PER_PIECE"}]

OneWholesaleFifoArgs ==
    [branch_id : {1}, size_id : Sizes, kg_sold : {Rat(1, 2), RInt(1), RInt(2)},
     pcs_counted : {1, 3}, tolerance_pcs : {0},
     unit_price : OnePrices, price_basis : {"PER_KG", "PER_PIECE"}]

\* the arguments of the direct retail call against batch_id
DirectRetail(a, batch_id) ==
    [branch_id |-> a.branch_id, batch_id |-> batch_id, size_id |-> Some(a.size_id),
     pcs_sold |-> a.pcs_sold, unit_price |-> a.unit_price,
     price_basis |-> a.price_basis, total_price |-> None]

\* the arguments of the direct wholesale call against batch_id
DirectWholesale(a, batch_id) ==
    [branch_id |-> a.branch_id, batch_id |-> batch_id, size_id |-> Some(a.size_id),
     kg_sold |-> a.kg_sold, pcs_counted |-> a.pcs_counted,
     tolerance_pcs |-> a.tolerance_pcs, unit_price |-> a.unit_price,
     price_basis |-> a.price_basis, total_price |-> None]

\* C40: when the oldest FIFO candidate alone covers the request, either FIFO
\* wrapper succeeds and posts exactly one row, the very row the direct writer
\* posts against that batch with the same arguments (batch, pcs_sold, kg_sold,
\* pcs_suggested, variance_flag and total_price included).
C40_SingleSliceIsDirectSale ==
    /\ \A a \in OneRetailFifoArgs :
           LET fifo == _fifo_batches_for_size(batches, batch_lines, sales,
                                              a.branch_id, a.size_id)
           IN  (fifo # <<>> /\ a.pcs_sold <= fifo[1].pcs_on_hand)
                   => LET r == create_retail_sale_fifo(batches, batch_lines, sales, a)
                          d == create_retail_sale(batches, sales,
                                                  DirectRetail(a, fifo[1].batch_id))
                      IN  /\ r.err = OK /\ d.err = OK
                          /\ Len(r.sales) = Len(sales) + 1
                          /\ r.sales = d.sales
    /\ \A a \in OneWholesaleFifoArgs :
           LET fifo == _fifo_batches_for_size(batches, batch_lines, sales,
                                              a.branch_id, a.size_id)
           IN  (fifo # <<>> /\ RLeq(a.kg_sold, fifo[1].kg_on_hand))
                   => LET r == create_wholesale_sale_fifo(batches, batch_lines,
                                                          sales, a)
                          d == create_wholesale_sale(batches, sales,
                                   DirectWholesale(a, fifo[1].batch_id))
                      IN  /\ r.err = OK /\ d.err = OK
                          /\ Len(r.sales) = Len(sales) + 1
                          /\ r.sales = d.sales

\* a wholesale FIFO call has just posted a single row while two candidates
\* were on offer: the row of the direct writer against the older of the two;
\* and a priced retail request of one piece is covered by the oldest candidate
C40_Witness ==
    /\ last = Call("create_wholesale_sale_fifo", OK, 1)
    /\ LET prev == SubSeq(sales, 1, Len(sales) - 1)
           row == sales[Len(sales)]
           fifo == _fifo_batches_for_size(batches, batch_lines, prev, 1, 1)
       IN  /\ Len(fifo) >= 2
           /\ fifo[1].batch_id # fifo[2].batch_id
           /\ fifo[1].batch_id = row.batch_id
           /\ RLeq(row.kg_sold, fifo[1].kg_on_hand)
           /\ create_wholesale_sale(batches, prev,
                  [branch_id |-> 1, batch_id |-> row.batch_id, size_id |-> Some(1),
                   kg_sold |-> row.kg_sold, pcs_counted |-> row.pcs_sold,
                   tolerance_pcs |-> 0, unit_price |-> None,
                   price_basis |-> "PER_KG", total_price |-> None]).sales = sales
    /\ \E a \in OneRetailFifoArgs :
           /\ a.unit_price # None
           /\ LET fifo == _fifo_batches_for_size(batches, batch_lines, sales, 1,
                                                 a.size_id)
              IN  fifo # <<>> /\ a.pcs_sold <= fifo[1].pcs_on_hand

====
